---- MODULE Spec2Model ----
(***************************************************************************)
(* Model of yucca's YuccaPreprocessor: the inference preprocessing of one  *)
(* case (preprocess_case_for_inference), the reversal of a prediction      *)
(* (reverse_preprocessing), the caller that chains the two (predict_step)  *)
(* and the training run (run): a pool of worker processes mapped over the  *)
(* subjects of the input directory, one task (_preprocess_train_subject)   *)
(* per subject, each with its own locals; the files written are shared.    *)
(*                                                                         *)
(* Arrays are records [shape, data]: shape is a tuple of axis lengths and  *)
(* data maps every index tuple (0-based, as in numpy) to a value.          *)
(* Axis permutations hold 0-based axis numbers, as in the plans file.      *)
(* Spacings are integers (multiples of a common unit).                     *)
(*                                                                         *)
(* A second specification, GammaSpec, models the Gamma transform of the    *)
(* augmentation (Gamma.__call__, Gamma.__gamma__, augment_gamma).          *)
(***************************************************************************)
EXTENDS Integers, Sequences, FiniteSets, TLC

\* ------------------------------------------------------------------------
\* Bounds of the model
\* ------------------------------------------------------------------------
MaxBatch == 2
MaxClasses == 2
MaxModalities == 2
MaxSubjects == 2
MaxThreads == 2
MaxKills == 1

\* Pool.map: the number of chunks per worker that the task list is cut into
PoolFactor == 4

None == "None"

\* ------------------------------------------------------------------------
\* Tuples and arrays
\* ------------------------------------------------------------------------
RECURSIVE MaxOf(_)
MaxOf(s) == IF Len(s) = 0 THEN 0
            ELSE LET m == MaxOf(Tail(s)) IN IF Head(s) > m THEN Head(s) ELSE m

\* every index tuple of an array of the given shape
Indices(shape) ==
    {i \in [1..Len(shape) -> 0..(MaxOf(shape) - 1)] :
        \A k \in 1..Len(shape) : i[k] < shape[k]}

\* np.zeros(shape)
Zeros(shape) == [shape |-> shape, data |-> [i \in Indices(shape) |-> 0]]

IsPerm(p, n) == Len(p) = n /\ {p[k] : k \in 1..n} = 0..(n - 1)

\* shape[perm] : numpy fancy indexing of a 1-d array by a list of axes
TakeAxes(s, perm) == [k \in 1..Len(perm) |-> s[perm[k] + 1]]

\* ndarray.transpose(perm): axis k of the result is axis perm[k] of the input
Transpose(a, perm) ==
    LET n == Len(a.shape)
        src(i) == [m \in 1..n |-> i[(CHOOSE k \in 1..n : perm[k] + 1 = m)]]
    IN [shape |-> TakeAxes(a.shape, perm),
        data |-> [i \in Indices(TakeAxes(a.shape, perm)) |-> a.data[src(i)]]]

\* np.round: round half to even, of the rational num / den (den > 0)
RoundHalfEven(num, den) ==
    LET q == num \div den
        r == num % den
    IN IF 2 * r < den THEN q
       ELSE IF 2 * r > den THEN q + 1
       ELSE IF q % 2 = 0 THEN q ELSE q + 1

\* skimage.transform.resize: the result has shape output_shape; the value at
\* an output voxel is taken at the input coordinate its centre maps to (the
\* interpolation kernel is not modelled, only where the value comes from).
Resize(a, output_shape) ==
    LET n == Len(a.shape)
        src(i) == [k \in 1..n |->
                     ((2 * i[k] + 1) * a.shape[k]) \div (2 * output_shape[k])]
    IN [shape |-> output_shape, data |-> [i \in Indices(output_shape) |-> a.data[src(i)]]]

\* resize(order=3) of a target shape with an axis of length 0: the scale
\* factor of that axis is infinite, and the smoothing before the
\* downsampling raises OverflowError for it
ResizeOverflows(a, output_shape) ==
    /\ Len(output_shape) = Len(a.shape)
    /\ \A k \in 1..Len(a.shape) : a.shape[k] > 0
    /\ \E k \in 1..Len(a.shape) : output_shape[k] = 0

\* resize cannot produce or consume an axis of length 0
ResizeFails(a, output_shape) ==
    \/ Len(output_shape) # Len(a.shape)
    \/ \E k \in 1..Len(a.shape) : a.shape[k] = 0 \/ output_shape[k] = 0

\* ------------------------------------------------------------------------
\* Volumes (loaded NIfTI images) and the geometry utilities of yuccalib
\* ------------------------------------------------------------------------
\* A volume is [shape, data, spacing, orientation, qform_code, sform_code]:
\* the array, the header's voxel spacing, the axis codes of the affine and
\* the validity codes of the two header transforms (0 = not valid).

Orientations == {"RAS", "LAS", "ARS"}

get_nib_spacing(vol) == vol.spacing

get_nib_orientation(vol) == vol.orientation

nib_to_np(vol) == [shape |-> vol.shape, data |-> vol.data]

\* reverse an array along its first axis
FlipFirst(a) ==
    [shape |-> a.shape,
        data |-> [i \in Indices(a.shape) |-> a.data[[i EXCEPT ![1] = a.shape[1] - 1 - i[1]]]]]

\* exchange the first two axes of a tuple / of an array
SwapTuple(s) == [k \in 1..Len(s) |-> IF k = 1 THEN s[2] ELSE IF k = 2 THEN s[1] ELSE s[k]]

SwapFirstTwo(a) == [shape |-> SwapTuple(a.shape),
    data |-> [i \in Indices(SwapTuple(a.shape)) |-> a.data[SwapTuple(i)]]]

\* the flip / axis exchange that takes an array between the code and "RAS"
ViaRAS(a, code) ==
    IF code = "LAS" THEN FlipFirst(a)
    ELSE IF code = "ARS" THEN SwapFirstTwo(a)
    ELSE a

\* reorient(volume, from_code, to_code): the axis exchanges and flips that
\* take the volume from one orientation code to the other
reorient_nib_image(vol, original_orientation, target_orientation) ==
    LET a == ViaRAS(ViaRAS(nib_to_np(vol), original_orientation), target_orientation)
        sp == IF (original_orientation = "ARS") # (target_orientation = "ARS")
              THEN SwapTuple(vol.spacing) ELSE vol.spacing
    IN [vol EXCEPT !.shape = a.shape, !.data = a.data, !.spacing = sp,
                   !.orientation = target_orientation]

\* foreground_bbox: the smallest box holding every voxel that differs from the
\* background value, as <<start_0, end_0, start_1, end_1, ...>>, half open
get_bbox_for_foreground(a, background_label) ==
    LET n == Len(a.shape)
        fg == {i \in Indices(a.shape) : a.data[i] # background_label}
        lo(k) == CHOOSE v \in {i[k] : i \in fg} : \A i \in fg : v <= i[k]
        hi(k) == CHOOSE v \in {i[k] : i \in fg} : \A i \in fg : v >= i[k]
    IN [m \in 1..(2 * n) |->
          IF m % 2 = 1 THEN lo((m + 1) \div 2) ELSE hi(m \div 2) + 1]

BoxShape(box) == [k \in 1..(Len(box) \div 2) |-> box[2 * k] - box[2 * k - 1]]

\* crop_to_box: the slice of the array inside the box
crop_to_box(a, box) ==
    [shape |-> BoxShape(box),
        data |-> [i \in Indices(BoxShape(box)) |->
            a.data[[k \in 1..Len(a.shape) |-> i[k] + box[2 * k - 1]]]]]

\* pad_to_size never crops: the target must dominate the array on every axis
PadFails(a, size) ==
    \/ Len(size) # Len(a.shape)
    \/ \E k \in 1..Len(a.shape) : size[k] < a.shape[k]

\* the pad widths <<before_0, after_0, before_1, after_1, ...>>
PadWidths(shape, size) ==
    [m \in 1..(2 * Len(shape)) |->
       LET k == (m + 1) \div 2
           total == size[k] - shape[k]
       IN IF m % 2 = 1 THEN total \div 2 ELSE total - (total \div 2)]

InsideBox(i, box) ==
    \A k \in 1..Len(i) : box[2 * k - 1] <= i[k] /\ i[k] < box[2 * k]

\* pad_to_size(array, size) -> (array, pad widths): zero padding on both sides
pad_to_size(a, size) ==
    LET pad == PadWidths(a.shape, size)
        box == [m \in 1..Len(pad) |->
                  IF m % 2 = 1 THEN pad[m] ELSE pad[m - 1] + a.shape[m \div 2]]
    IN <<[shape |-> size, data |-> [i \in Indices(size) |-> IF InsideBox(i, box)
                            THEN a.data[[k \in 1..Len(i) |-> i[k] - pad[2 * k - 1]]]
                            ELSE 0]],
         pad>>

\* ------------------------------------------------------------------------
\* Normalizer
\* ------------------------------------------------------------------------
Schemes == {"standardize", "no_norm"}

\* normalizer(array, scheme, intensities): z-score with the dataset's mean and
\* std of the modality (in whole units), or the array as it is
normalizer(a, scheme, intensities) ==
    IF scheme = "standardize"
    THEN [shape |-> a.shape,
        data |-> [i \in Indices(a.shape) |-> (a.data[i] - intensities.mean) \div intensities.std]]
    ELSE a

\* ------------------------------------------------------------------------
\* State
\* ------------------------------------------------------------------------
VARIABLES
    plans,            \* the plans file, loaded in __init__ and never changed
    preprocessor,     \* the instance's transpose_forward, transpose_backward, target_spacing
    case,             \* the case given to inference: its volumes as stored on disk
    input_dir,        \* the raw data of the task: the files of imagesTr and labelsTr
    patch_size,       \* argument of preprocess_case_for_inference
    inf_pc,           \* position in preprocess_case_for_inference
    images,           \* its local list of volumes / arrays
    prev_images,      \* the list as it was before the last step (history)
    image_properties, \* its properties record: field name -> value
    inf_err,          \* the error it raised, or None
    tensor,           \* the tensor it returned: [batch, channels, shape]
    logits,           \* argument of reverse_preprocessing: [batch, channels, shape]
    rev_pc,           \* position in reverse_preprocessing
    b,                \* its loop index over the batch
    c,                \* its loop index over the class channels
    image,            \* its local array
    canvas,           \* its canvas: <<b, c>> -> array
    rev_err,          \* the error it raised, or None
    rev_result,       \* the canvas it returned (no entries while none is returned)
    rev_first,        \* the canvas an earlier call returned for the same record (history)
    rev_out,          \* <<b, c>> -> the array it reversed for that pair (history)
    rev_log,          \* the stages the current array has passed, in order (history)
    run_pc,           \* position in run
    run_err,          \* the error run raised, or None
    t_pc,             \* subject id -> position in _preprocess_train_subject
    t_images,         \* subject id -> its local list of volumes / arrays
    t_seg,            \* subject id -> its local label volume / array, as a list of one
    t_locals,         \* subject id -> its other locals: spacings, size, orientations
    image_props,      \* subject id -> its properties record: field name -> value
    t_err,            \* subject id -> the error it raised, or None
    files,            \* the target directory: file name -> content
    kills,            \* the number of workers that were killed (history)
    gamma,            \* the Gamma transform: the fields set by Gamma.__init__
    data_dict,        \* argument of Gamma.__call__: the batch under its data key
    gamma_pc,         \* position in Gamma.__call__
    gamma_b,          \* its loop index over the batch
    gamma_err         \* the error it raised, or None

vars == <<plans, preprocessor, case, input_dir, patch_size, inf_pc, images, prev_images,
          image_properties, inf_err, tensor, logits, rev_pc, b, c, image, canvas,
          rev_err, rev_result, rev_first, rev_out, rev_log, run_pc, run_err,
          t_pc, t_images, t_seg, t_locals, image_props, t_err, files, kills,
          gamma, data_dict, gamma_pc, gamma_b, gamma_err>>

inf_vars == <<patch_size, inf_pc, images, prev_images, image_properties, inf_err, tensor>>

rev_vars == <<logits, rev_pc, b, c, image, canvas, rev_err, rev_result, rev_first, rev_out, rev_log>>

train_vars == <<run_pc, run_err, t_pc, t_images, t_seg, t_locals, image_props, t_err, files,
               kills>>

gamma_vars == <<gamma, data_dict, gamma_pc, gamma_b, gamma_err>>

NoProperties == [f \in {} |-> None]

Has(props, field) == field \in DOMAIN props

Set(props, field, value) == [f \in (DOMAIN props) \cup {field} |->
                               IF f = field THEN value ELSE props[f]]

\* ------------------------------------------------------------------------
\* The runs that are explored: plans files, cases and patch sizes
\* ------------------------------------------------------------------------
Intensities == {0, 1}

Ones(d) == [k \in 1..d |-> 1]

\* twice the unit along the first axis
Coarse(d) == [k \in 1..d |-> IF k = 1 THEN 2 ELSE 1]

Labels(n) == [k \in 1..n |-> k - 1]

BaseShape(d) == IF d = 2 THEN <<3, 2>> ELSE <<2, 1, 3>>

PatchSizes(d) == IF d = 2 THEN {<<4, 4>>, <<6, 3>>} ELSE {<<4, 4, 4>>, <<4, 1, 3>>}

\* every array of the shape with at least one foreground voxel
Arrays(shape) ==
    {[shape |-> shape, data |-> f] :
        f \in {g \in [Indices(shape) -> Intensities] : \E i \in Indices(shape) : g[i] # 0}}

Volume(a, spacing, orientation, qform_code, sform_code) ==
    [shape |-> a.shape, data |-> a.data, spacing |-> spacing,
     orientation |-> orientation, qform_code |-> qform_code, sform_code |-> sform_code]

\* modality m of a case: the first one is the drawn array, the others share
\* its geometry and are foreground everywhere
Modality(a, m) == IF m = 1 THEN a ELSE [shape |-> a.shape, data |-> [i \in Indices(a.shape) |-> m]]

\* forward / backward permutations: the identity, a pair of inverses, and a
\* backward permutation that is not the inverse of the forward one
TransposePairs(d) ==
    IF d = 2
    THEN {<<(<<0, 1>>), (<<0, 1>>)>>, <<(<<1, 0>>), (<<1, 0>>)>>, <<(<<1, 0>>), (<<0, 1>>)>>}
    ELSE {<<(<<0, 1, 2>>), (<<0, 1, 2>>)>>, <<(<<1, 2, 0>>), (<<2, 0, 1>>)>>,
          <<(<<1, 2, 0>>), (<<1, 2, 0>>)>>}

\* original / target spacing: equal, coarser target, finer target, no target
SpacingPairs(d) ==
    {<<Ones(d), Ones(d)>>, <<Ones(d), Coarse(d)>>, <<Coarse(d), Ones(d)>>, <<Ones(d), <<>>>>}

Plan(crop, tp, target_spacing, tcs, nmod, scheme, nclasses, d) ==
    [crop_to_nonzero |-> crop,
     transpose_forward |-> tp[1],
     transpose_backward |-> tp[2],
     target_spacing |-> target_spacing,
     target_coordinate_system |-> tcs,
     normalization_scheme |-> [m \in 1..nmod |-> scheme],
     intensities |-> [m \in 1..nmod |-> [mean |-> 1, std |-> 1]],
     classes |-> Labels(nclasses),
     data_dimensions |-> d]

\* geometry runs: every foreground pattern, crop on and off, the transposes and
\* spacings above, a valid header already in the target orientation; cases
\* without a label volume, as given to inference
GeometryRuns ==
    {[plans |-> Plan(crop, tp, sp[2], "RAS", 1, "no_norm", MaxClasses, d),
      case |-> [images |-> <<Volume(a, sp[1], "RAS", 1, 1)>>, seg |-> <<>>]] :
        crop \in BOOLEAN, d \in {2}, tp \in TransposePairs(2), sp \in SpacingPairs(2),
        a \in Arrays(BaseShape(2))}
    \cup
    {[plans |-> Plan(crop, tp, sp[2], "RAS", 1, "no_norm", MaxClasses, d),
      case |-> [images |-> <<Volume(a, sp[1], "RAS", 1, 1)>>, seg |-> <<>>]] :
        crop \in BOOLEAN, d \in {3}, tp \in TransposePairs(3), sp \in SpacingPairs(3),
        a \in Arrays(BaseShape(3))}

\* an array whose flips and axis exchanges are all different
Asymmetric == [shape |-> <<3, 2>>,
    data |-> [i \in Indices(<<3, 2>>) |-> IF i \in {<<0, 0>>, <<1, 1>>} THEN 1 ELSE 0]]

\* header runs: every header validity, orientation and target coordinate
\* system, one to MaxModalities modalities, one to MaxClasses classes; the
\* case has a label volume (labels 0 and 1) registered with its modalities
HeaderRuns ==
    {[plans |-> Plan(TRUE, <<(<<0, 1>>), (<<0, 1>>)>>, Ones(2), tcs, nmod, "standardize",
                     nclasses, 2),
      case |-> [images |-> [m \in 1..nmod |->
                              Volume(Modality(Asymmetric, m), Ones(2), orn, q, s)],
                seg |-> <<Volume(Asymmetric, Ones(2), orn, q, s)>>]] :
        tcs \in {None, "RAS", "LAS"}, nmod \in 1..MaxModalities, nclasses \in 1..MaxClasses,
        orn \in Orientations, q \in {0, 1}, s \in {0, 1}}

\* the names of the raw data files: subject ids that are prefixes of one
\* another ("Case_4", "Case_42", ...), one file per modality, one label file
Digits == <<"4", "2", "1", "0", "3">>

ModalityTags == <<"000", "001", "002", "003">>

SubjectId(k) == <<"Case_">> \o [j \in 1..k |-> Digits[j]]

ModalityFile(subject, m) == subject \o <<"_", ModalityTags[m], ".nii.gz">>

LabelFile(subject) == subject \o <<".nii.gz">>

\* the raw data directory that holds the one case under the subject id
Stored(subject, cs) ==
    [imagesTr |-> [m \in 1..Len(cs.images) |->
                     [name |-> ModalityFile(subject, m), vol |-> cs.images[m]]],
     labelsTr |-> [k \in 1..Len(cs.seg) |->
                     [name |-> LabelFile(subject), vol |-> cs.seg[k]]]]

\* one more column of background
Widen(a) ==
    [shape |-> [a.shape EXCEPT ![2] = @ + 1],
     data |-> [i \in Indices([a.shape EXCEPT ![2] = @ + 1]) |->
                 IF i[2] < a.shape[2] THEN a.data[i] ELSE 0]]

\* what is wrong with a case or its plan: a modality or the label that is
\* not registered with the first modality, a plan of another dimensionality,
\* a label value that is no class, no modality file, an unknown scheme
Faults ==
    ({"modality", "label"} \X {"shape", "spacing", "orientation"})
      \cup {<<"none", "none">>, <<"plan", "dimensions">>, <<"label", "value">>,
            <<"modality", "missing">>, <<"plan", "scheme">>}

Broken(vol, how) ==
    CASE how = "shape" ->
           [vol EXCEPT !.shape = Widen(vol).shape, !.data = Widen(vol).data]
      [] how = "spacing" -> [vol EXCEPT !.spacing = Coarse(2)]
      [] how = "orientation" -> [vol EXCEPT !.orientation = "RAS"]
      [] how = "value" -> [vol EXCEPT !.data[<<2, 1>>] = MaxOf(Labels(MaxClasses)) + 1]
      [] OTHER -> vol

\* a case of MaxModalities modalities and a label, stored as "LAS" with a valid header
FaultyCase(fault) ==
    [images |-> [m \in 1..MaxModalities |->
                   LET vol == Volume(Modality(Asymmetric, m), Ones(2), "LAS", 1, 1)
                   IN IF fault[1] = "modality" /\ m = MaxModalities
                      THEN Broken(vol, fault[2]) ELSE vol],
     seg |-> <<LET vol == Volume(Asymmetric, Ones(2), "LAS", 1, 1)
               IN IF fault[1] = "label" THEN Broken(vol, fault[2]) ELSE vol>>]

\* faulty runs: every fault, with the tests of the training preprocessor
\* enabled and disabled
FaultyRuns ==
    {[plans |-> Plan(TRUE, <<(<<0, 1>>), (<<0, 1>>)>>, Ones(2), "RAS", MaxModalities,
                     IF fault = <<"plan", "scheme">> THEN "unknown" ELSE "standardize",
                     MaxClasses, IF fault = <<"plan", "dimensions">> THEN 3 ELSE 2),
      case |-> FaultyCase(fault),
      input_dir |-> IF fault = <<"modality", "missing">>
                    THEN [imagesTr |-> Stored(SubjectId(2), FaultyCase(fault)).imagesTr,
                          labelsTr |-> Stored(SubjectId(1), FaultyCase(fault)).labelsTr]
                    ELSE Stored(SubjectId(1), FaultyCase(fault)),
      threads |-> 1,
      disable_unittests |-> disable] :
        fault \in Faults, disable \in BOOLEAN}

RECURSIVE Concat(_)
Concat(lists) == IF Len(lists) = 0 THEN <<>> ELSE Head(lists) \o Concat(Tail(lists))

\* what may be wrong with the one faulty case of a batch: a label that is not
\* registered, a label value that is no class, no modality file
BatchFaults ==
    {<<"none", "none">>, <<"label", "spacing">>, <<"label", "value">>,
     <<"modality", "missing">>}

\* the faults of the n cases of a batch: at most one case is faulty
BatchFaultLists(n) ==
    {f \in [1..n -> BatchFaults] :
        Cardinality({k \in 1..n : f[k] # <<"none", "none">>}) <= 1}

\* the case of subject k: its first modality holds k in the foreground
BatchCase(k, fault) ==
    LET cs == FaultyCase(fault)
    IN [cs EXCEPT !.images[1].data = [i \in DOMAIN @ |-> k * @[i]]]

\* the raw data of a batch in the order of the file names: "Case_4.nii.gz"
\* comes before "Case_42.nii.gz", "Case_42_000.nii.gz" before "Case_4_000.nii.gz"
BatchDir(f) ==
    LET n == Len(f)
        dir(k) == Stored(SubjectId(k), BatchCase(k, f[k]))
    IN [imagesTr |-> Concat([j \in 1..n |->
                               IF f[n + 1 - j] = <<"modality", "missing">> THEN <<>>
                               ELSE dir(n + 1 - j).imagesTr]),
        labelsTr |-> Concat([k \in 1..n |-> dir(k).labelsTr])]

\* batch runs: two to MaxSubjects cases, one of them at most faulty, at every
\* place of the list; a pool of one to MaxThreads workers (no more workers
\* than cases: the others would stay idle)
BatchRuns ==
    {[plans |-> Plan(TRUE, <<(<<0, 1>>), (<<0, 1>>)>>, Ones(2), "RAS", MaxModalities,
                     "standardize", MaxClasses, 2),
      case |-> BatchCase(1, <<"none", "none">>),
      input_dir |-> BatchDir(x[1]),
      threads |-> x[2],
      disable_unittests |-> FALSE] :
        x \in {y \in (UNION {BatchFaultLists(n) : n \in 2..MaxSubjects}) \X (1..MaxThreads) :
                 y[2] <= Len(y[1])}}

\* runs over two subjects of which one id continues the other after an
\* underscore ("Case_4" and "Case_4_2", as for two scans of one patient);
\* the files in the order of their names
ExtendedIdRuns ==
    {[plans |-> Plan(TRUE, <<(<<0, 1>>), (<<0, 1>>)>>, Ones(2), "RAS", MaxModalities,
                     "standardize", MaxClasses, 2),
      case |-> BatchCase(1, <<"none", "none">>),
      input_dir |->
          LET short == Stored(SubjectId(1), BatchCase(1, <<"none", "none">>))
              long == Stored(SubjectId(1) \o <<"_", "2">>, BatchCase(2, <<"none", "none">>))
          IN [imagesTr |-> short.imagesTr \o long.imagesTr,
              labelsTr |-> short.labelsTr \o long.labelsTr],
      threads |-> 1,
      disable_unittests |-> disable] : disable \in BOOLEAN}

\* chunked runs: one worker and one case more than four, so that the pool
\* cuts the task list into chunks of two; one case has a label value that
\* is no class, at every place of the list
ChunkedRuns ==
    {[plans |-> Plan(TRUE, <<(<<0, 1>>), (<<0, 1>>)>>, Ones(2), "RAS", MaxModalities,
                     "standardize", MaxClasses, 2),
      case |-> BatchCase(1, <<"none", "none">>),
      input_dir |-> BatchDir([k \in 1..(PoolFactor + 1) |-> IF k = bad THEN <<"label", "value">>
                                                ELSE <<"none", "none">>]),
      threads |-> 1,
      disable_unittests |-> FALSE] : bad \in 1..(PoolFactor + 1)}

\* an array with a single foreground voxel: its crop has one voxel
Speck == [shape |-> <<3, 2>>,
    data |-> [i \in Indices(<<3, 2>>) |-> IF i = <<2, 1>> THEN 1 ELSE 0]]

\* resampling runs: a case of MaxModalities modalities and a label in the
\* target orientation; every scheme for every modality, statistics that
\* differ between the modalities (mean m, std m), the transposes and the
\* spacings above, among them plans without target spacing (for a case of
\* unit spacing and one of coarse spacing) and a target shape with an
\* empty axis
ResampleRuns ==
    {[plans |-> [Plan(TRUE, tp, sp[2], "RAS", MaxModalities, "no_norm", MaxClasses, 2)
                   EXCEPT !.normalization_scheme = schemes,
                          !.intensities = [m \in 1..MaxModalities |-> [mean |-> m, std |-> m]]],
      case |-> [images |-> [m \in 1..MaxModalities |->
                              Volume(Modality(a, m), sp[1], "RAS", 1, 1)],
                seg |-> <<Volume(a, sp[1], "RAS", 1, 1)>>]] :
        tp \in TransposePairs(2), sp \in SpacingPairs(2) \cup {<<Coarse(2), <<>>>>},
        schemes \in [1..MaxModalities -> Schemes], a \in {Asymmetric, Speck}}

\* ------------------------------------------------------------------------
\* YuccaPreprocessor.__init__
\* ------------------------------------------------------------------------
\* __init__ keeps its arguments and leaves the three lists empty
__init__(threads, disable_unittests) ==
    [threads |-> threads, disable_unittests |-> disable_unittests,
     intensities |-> <<>>, transpose_forward |-> <<>>,
     transpose_backward |-> <<>>, target_spacing |-> <<>>]

\* ------------------------------------------------------------------------
\* YuccaPreprocessor.initialize_properties
\* ------------------------------------------------------------------------
initialize_properties ==
    [preprocessor EXCEPT !.intensities = plans.intensities,
                         !.transpose_forward = plans.transpose_forward,
                         !.transpose_backward = plans.transpose_backward,
                         !.target_spacing = plans.target_spacing]

\* ------------------------------------------------------------------------
\* YuccaPreprocessor._resample_and_normalize_case
\* ------------------------------------------------------------------------
\* The result is [ok, err, images, seg]; a label array that may be absent
\* (seg=None) is a list of no or one array. An OverflowError of the resize
\* of a modality is caught and printed, and the array stays as it was.
Failure(err) == [ok |-> FALSE, err |-> err, images |-> <<>>, seg |-> <<>>]

\* variant: the scaled length of an axis is truncated instead of rounded
TargetShape_Truncated(shape_t, original_spacing_t, target_spacing_t) ==
    [k \in 1..Len(shape_t) |-> (original_spacing_t[k] * shape_t[k]) \div target_spacing_t[k]]

\* the target shape of the resampling, from the transposed shape and spacings
TargetShape(shape_t, original_spacing_t, target_spacing_t) ==
    [k \in 1..Len(shape_t) |->
       RoundHalfEven(original_spacing_t[k] * shape_t[k], target_spacing_t[k])]

CanTake(s, perm) == \A k \in 1..Len(perm) : perm[k] + 1 \in 1..Len(s)

\* resize(order=0, anti_aliasing=False) of the label to a target shape with
\* an axis of length 0 has no smoothing step; what it does depends on the
\* installed skimage/scipy: an empty array of the target shape, an
\* OverflowError (which the code catches), or another error
LabelResizeOutcomes == {"empty", "caught", "raised"}

_resample_and_normalize_case(imgs, seg, norm_op, transpose, original_spacing, target_spacing, intensities, seg_resize) ==
    IF ~(Len(imgs) = Len(norm_op) /\ Len(norm_op) = Len(intensities))
    THEN Failure("AssertionError")
    ELSE IF \E i \in 1..Len(imgs) : norm_op[i] \notin Schemes
    THEN Failure("ConfigurationError")
    ELSE IF \E i \in 1..Len(imgs) : Len(imgs[i].shape) # Len(transpose)
    THEN Failure("AssertionError")
    ELSE IF ~IsPerm(transpose, Len(transpose))
    THEN Failure("ValueError")
    ELSE IF ~CanTake(original_spacing, transpose) \/ ~CanTake(target_spacing, transpose)
    THEN Failure("IndexError")
    ELSE IF \E i \in 1..Len(seg) : Len(seg[i].shape) # Len(transpose)
    THEN Failure("ValueError")
    ELSE
    LET normed == [i \in 1..Len(imgs) |->
                     Transpose(normalizer(imgs[i], norm_op[i], intensities[i]), transpose)]
        seg_t == [i \in 1..Len(seg) |-> Transpose(seg[i], transpose)]
        shape_t == normed[1].shape
        original_spacing_t == TakeAxes(original_spacing, transpose)
        target_spacing_t == TakeAxes(target_spacing, transpose)
        target_shape == TargetShape(shape_t, original_spacing_t, target_spacing_t)
    IN IF \/ \E i \in 1..Len(imgs) : ~ResizeOverflows(normed[i], target_shape)
                                         /\ ResizeFails(normed[i], target_shape)
          \/ \E i \in 1..Len(seg) :
                /\ ResizeFails(seg_t[i], target_shape)
                /\ ~ResizeOverflows(seg_t[i], target_shape) \/ seg_resize = "raised"
       THEN Failure("ValueError")
       ELSE [ok |-> TRUE, err |-> None,
             images |-> [i \in 1..Len(imgs) |->
                           IF ResizeOverflows(normed[i], target_shape) THEN normed[i]
                           ELSE Resize(normed[i], target_shape)],
             seg |-> [i \in 1..Len(seg) |->
                        IF ResizeOverflows(seg_t[i], target_shape) /\ seg_resize = "caught"
                        THEN seg_t[i]
                        ELSE Resize(seg_t[i], target_shape)]]

\* ------------------------------------------------------------------------
\* YuccaPreprocessor.preprocess_case_for_inference
\* ------------------------------------------------------------------------
NoTensor == [batch |-> 0, channels |-> 0, shape |-> <<>>]

Valid(code) == code # 0

\* the header-validity gate of the inference preprocessor
InferenceReorients(vol, p) ==
    Valid(vol.qform_code)
      \/ (Valid(vol.sform_code) /\ p.target_coordinate_system # None)

InfFail(err) ==
    /\ inf_pc' = "failed"
    /\ inf_err' = err
    /\ images' = <<>>
    /\ prev_images' = <<>>
    /\ UNCHANGED <<image_properties, tensor>>

\* load the volumes and record what the first header says
InfLoad ==
    /\ inf_pc = "idle"
    /\ run_pc = "idle"
    /\ \E size \in PatchSizes(Len(case.images[1].shape)) : patch_size' = size
    /\ preprocessor' = initialize_properties
    /\ images' = case.images
    /\ prev_images' = <<>>
    /\ image_properties' =
         [original_spacing |-> get_nib_spacing(case.images[1]),
          original_shape |-> case.images[1].shape,
          qform |-> case.images[1].orientation,
          sform |-> case.images[1].orientation]
    /\ IF Len(case.images[1].shape) \in {2, 3}
       THEN inf_pc' = "loaded" /\ inf_err' = None
       ELSE inf_pc' = "failed" /\ inf_err' = "AssertionError"
    /\ UNCHANGED <<plans, case, input_dir, tensor>>
    /\ UNCHANGED rev_vars
    /\ UNCHANGED train_vars
    /\ UNCHANGED gamma_vars

\* reorient if the header allows it, then turn the volumes into arrays
InfOrient ==
    /\ inf_pc = "loaded"
    /\ IF InferenceReorients(images[1], plans)
       THEN IF plans.target_coordinate_system = None
            THEN InfFail("KeyError")
            ELSE LET original_orientation == get_nib_orientation(images[1])
                     vols == [i \in 1..Len(images) |->
                                reorient_nib_image(images[i], original_orientation,
                                                   plans.target_coordinate_system)]
                     props == Set(Set(Set(image_properties,
                                  "reoriented", TRUE),
                                  "original_orientation", original_orientation),
                                  "new_orientation", get_nib_orientation(vols[1]))
                 IN /\ images' = [i \in 1..Len(vols) |-> nib_to_np(vols[i])]
                    /\ image_properties' =
                         Set(Set(props, "affine", vols[1].orientation),
                             "uncropped_shape", vols[1].shape)
                    /\ prev_images' = [i \in 1..Len(images) |-> nib_to_np(images[i])]
                    /\ inf_pc' = "oriented"
                    /\ UNCHANGED <<inf_err, tensor>>
       ELSE /\ images' = [i \in 1..Len(images) |-> nib_to_np(images[i])]
            /\ image_properties' =
                 Set(Set(Set(image_properties,
                     "reoriented", FALSE),
                     "affine", images[1].orientation),
                     "uncropped_shape", images[1].shape)
            /\ prev_images' = [i \in 1..Len(images) |-> nib_to_np(images[i])]
            /\ inf_pc' = "oriented"
            /\ UNCHANGED <<inf_err, tensor>>
    /\ UNCHANGED <<plans, preprocessor, case, input_dir, patch_size>>
    /\ UNCHANGED rev_vars
    /\ UNCHANGED train_vars
    /\ UNCHANGED gamma_vars

\* crop every modality to the foreground box of the first one
InfCrop ==
    /\ inf_pc = "oriented"
    /\ IF plans.crop_to_nonzero
       THEN LET nonzero_box == get_bbox_for_foreground(images[1], 0)
                cropped == [i \in 1..Len(images) |-> crop_to_box(images[i], nonzero_box)]
            IN /\ images' = cropped
               /\ image_properties' =
                    Set(Set(image_properties, "nonzero_box", nonzero_box),
                        "cropped_shape", cropped[1].shape)
       ELSE /\ images' = images
            /\ image_properties' = Set(image_properties, "cropped_shape", images[1].shape)
    /\ prev_images' = images
    /\ inf_pc' = "cropped"
    /\ UNCHANGED <<plans, preprocessor, case, input_dir, patch_size, inf_err, tensor>>
    /\ UNCHANGED rev_vars
    /\ UNCHANGED train_vars
    /\ UNCHANGED gamma_vars

\* normalize, transpose and resample
InfResample ==
    /\ inf_pc = "cropped"
    /\ LET r == _resample_and_normalize_case(images, <<>>, plans.normalization_scheme,
                    preprocessor.transpose_forward, image_properties["original_spacing"],
                    preprocessor.target_spacing, preprocessor.intensities, "raised")
       IN IF r.ok
          THEN /\ images' = r.images
               /\ image_properties' =
                    Set(image_properties, "resampled_transposed_shape", r.images[1].shape)
               /\ prev_images' = images
               /\ inf_pc' = "resampled"
               /\ UNCHANGED <<inf_err, tensor>>
          ELSE InfFail(r.err)
    /\ UNCHANGED <<plans, preprocessor, case, input_dir, patch_size>>
    /\ UNCHANGED rev_vars
    /\ UNCHANGED train_vars
    /\ UNCHANGED gamma_vars

\* pad every modality up to the patch size
InfPad ==
    /\ inf_pc = "resampled"
    /\ IF \E i \in 1..Len(images) : PadFails(images[i], patch_size)
       THEN InfFail("ConfigurationError")
       ELSE LET padded == [i \in 1..Len(images) |-> pad_to_size(images[i], patch_size)]
            IN /\ images' = [i \in 1..Len(images) |-> padded[i][1]]
               /\ image_properties' =
                    Set(Set(image_properties, "padded_shape", padded[1][1].shape),
                        "padding", padded[Len(images)][2])
               /\ prev_images' = images
               /\ inf_pc' = "padded"
               /\ UNCHANGED <<inf_err, tensor>>
    /\ UNCHANGED <<plans, preprocessor, case, input_dir, patch_size>>
    /\ UNCHANGED rev_vars
    /\ UNCHANGED train_vars
    /\ UNCHANGED gamma_vars

\* stack the modalities and return the tensor with the record
InfReturn ==
    /\ inf_pc = "padded"
    /\ tensor' = [batch |-> 1, channels |-> Len(images), shape |-> images[1].shape]
    /\ images' = <<>>
    /\ prev_images' = <<>>
    /\ inf_pc' = "done"
    /\ UNCHANGED <<plans, preprocessor, case, input_dir, patch_size, image_properties, inf_err>>
    /\ UNCHANGED rev_vars
    /\ UNCHANGED train_vars
    /\ UNCHANGED gamma_vars

\* ------------------------------------------------------------------------
\* The prediction handed to reverse_preprocessing
\* ------------------------------------------------------------------------
NoArray == [shape |-> <<>>, data |-> <<>>]

NoCanvas == [p \in {} |-> NoArray]

RECURSIVE Offset(_, _, _)
\* row-major offset of the first k entries of index tuple i
Offset(i, shape, k) ==
    IF k = 0 THEN 0 ELSE Offset(i, shape, k - 1) * shape[k] + i[k]

\* images[b, c] of a prediction: every voxel of every channel holds its own
\* nonzero value, so a misplaced or missing voxel is visible
PredictionAt(bb, cc, shape) ==
    [shape |-> shape,
        data |-> [i \in Indices(shape) |-> 1 + bb + 10 * cc + 100 * Offset(i, shape, Len(shape))]]

\* a shape the network was not given: one more voxel along the first axis
Grown(shape) == [shape EXCEPT ![1] = @ + 1]

\* YuccaLightningModule.predict_step hands the network's output for the
\* preprocessed case to reverse_preprocessing together with the case's record
CallReverse ==
    /\ inf_pc = "done"
    /\ rev_pc = "idle"
    /\ \E batch \in 1..MaxBatch, shape \in {tensor.shape, Grown(tensor.shape)} :
         logits' = [batch |-> batch, channels |-> Len(plans.classes), shape |-> shape]
    /\ rev_pc' = "start"
    /\ UNCHANGED <<plans, preprocessor, case, input_dir>>
    /\ UNCHANGED inf_vars
    /\ UNCHANGED train_vars
    /\ UNCHANGED gamma_vars
    /\ UNCHANGED <<b, c, image, canvas, rev_err, rev_result, rev_first, rev_out, rev_log>>

\* ------------------------------------------------------------------------
\* YuccaPreprocessor.reverse_preprocessing
\* ------------------------------------------------------------------------
RevFail(err) ==
    /\ rev_pc' = "failed"
    /\ rev_err' = err
    /\ image' = NoArray
    /\ canvas' = NoCanvas
    /\ UNCHANGED <<logits, b, c, rev_result, rev_first, rev_out, rev_log>>

\* np.zeros((1, nclasses, *uncropped_shape))
NewCanvas(nclasses, uncropped_shape) ==
    [p \in {0} \X (0..(nclasses - 1)) |-> Zeros(uncropped_shape)]

\* allocate the canvas and enter the loops
RevStart ==
    /\ rev_pc = "start"
    /\ IF ~CanTake(image_properties["cropped_shape"], preprocessor.transpose_forward)
       THEN RevFail("IndexError")
       ELSE /\ canvas' = NewCanvas(Len(plans.classes), image_properties["uncropped_shape"])
            /\ b' = 0
            /\ c' = 0
            /\ image' = NoArray
            /\ rev_log' = <<>>
            /\ rev_pc' = "strip"
            /\ UNCHANGED <<logits, rev_err, rev_result, rev_first, rev_out>>
    /\ UNCHANGED <<plans, preprocessor, case, input_dir>>
    /\ UNCHANGED inf_vars
    /\ UNCHANGED train_vars
    /\ UNCHANGED gamma_vars

\* image[pad[0]:shape[0]-pad[1], pad[2]:shape[1]-pad[3](, pad[4]:shape[2]-pad[5])]
StripFails(a, pad) ==
    \/ Len(pad) > 5 /\ Len(a.shape) < 3
    \/ Len(pad) < 4

\* variant: image[pad[0]:-pad[1], ...], which is empty where pad[1] is 0
Strip_NegativeEnd(a, pad) ==
    IF Len(pad) = 5 THEN a
    ELSE LET n == Len(a.shape)
             m == IF Len(pad) > 5 THEN 3 ELSE 2
             box == [k \in 1..(2 * n) |->
                       IF k > 2 * m THEN (IF k % 2 = 1 THEN 0 ELSE a.shape[k \div 2])
                       ELSE IF k % 2 = 1 THEN pad[k]
                       ELSE IF pad[k] = 0 THEN 0
                       ELSE a.shape[k \div 2] - pad[k]]
             clipped == [k \in 1..(2 * n) |->
                           IF k % 2 = 0 /\ box[k] < box[k - 1] THEN box[k - 1] ELSE box[k]]
         IN crop_to_box(a, clipped)

Strip(a, pad) ==
    IF Len(pad) = 5 THEN a
    ELSE LET n == Len(a.shape)
             m == IF Len(pad) > 5 THEN 3 ELSE 2
             box == [k \in 1..(2 * n) |->
                       IF k > 2 * m THEN (IF k % 2 = 1 THEN 0 ELSE a.shape[k \div 2])
                       ELSE IF k % 2 = 1 THEN pad[k]
                       ELSE a.shape[k \div 2] - pad[k]]
             clipped == [k \in 1..(2 * n) |->
                           IF k % 2 = 0 /\ box[k] < box[k - 1] THEN box[k - 1] ELSE box[k]]
         IN crop_to_box(a, clipped)

\* variant: the pad widths are stripped without the check against padded_shape
RevStripPad_Unchecked ==
    /\ rev_pc = "strip"
    /\ LET img == PredictionAt(b, c, logits.shape)
           pad == image_properties["padding"]
       IN IF StripFails(img, pad)
          THEN RevFail("IndexError")
          ELSE /\ image' = Strip(img, pad)
               /\ rev_log' = <<"padding checked", "padding stripped">>
               /\ rev_pc' = "resample"
               /\ UNCHANGED <<logits, b, c, canvas, rev_err, rev_result, rev_first, rev_out>>
    /\ UNCHANGED <<plans, preprocessor, case, input_dir>>
    /\ UNCHANGED inf_vars
    /\ UNCHANGED train_vars
    /\ UNCHANGED gamma_vars

\* first stage: check against padded_shape, strip the recorded pad widths
RevStripPad ==
    /\ rev_pc = "strip"
    /\ LET img == PredictionAt(b, c, logits.shape)
           pad == image_properties["padding"]
       IN IF img.shape # image_properties["padded_shape"]
          THEN RevFail("Reversing padding")
          ELSE IF StripFails(img, pad)
          THEN RevFail("IndexError")
          ELSE /\ image' = Strip(img, pad)
               /\ rev_log' = <<"padding checked", "padding stripped">>
               /\ rev_pc' = "resample"
               /\ UNCHANGED <<logits, b, c, canvas, rev_err, rev_result, rev_first, rev_out>>
    /\ UNCHANGED <<plans, preprocessor, case, input_dir>>
    /\ UNCHANGED inf_vars
    /\ UNCHANGED train_vars
    /\ UNCHANGED gamma_vars

\* variant: resamples to cropped_shape in the original axis order
RevResample_Untransposed ==
    /\ rev_pc = "resample"
    /\ LET shape_after_crop == image_properties["cropped_shape"]
       IN IF image.shape # image_properties["resampled_transposed_shape"]
          THEN RevFail("Reversing resampling and tranposition")
          ELSE IF ResizeFails(image, shape_after_crop)
                  \/ ~IsPerm(preprocessor.transpose_backward, Len(image.shape))
          THEN RevFail("ValueError")
          ELSE /\ image' = Transpose(Resize(image, shape_after_crop),
                                     preprocessor.transpose_backward)
               /\ rev_log' = rev_log \o <<"resampling checked", "resampled">>
               /\ rev_pc' = "reseat"
               /\ UNCHANGED <<logits, b, c, canvas, rev_err, rev_result, rev_first, rev_out>>
    /\ UNCHANGED <<plans, preprocessor, case, input_dir>>
    /\ UNCHANGED inf_vars
    /\ UNCHANGED train_vars
    /\ UNCHANGED gamma_vars

\* second stage: check against resampled_transposed_shape, resample to the
\* transposed cropped shape, transpose back
RevResample ==
    /\ rev_pc = "resample"
    /\ LET shape_after_crop_transposed ==
               TakeAxes(image_properties["cropped_shape"], preprocessor.transpose_forward)
       IN IF image.shape # image_properties["resampled_transposed_shape"]
          THEN RevFail("Reversing resampling and tranposition")
          ELSE IF ResizeFails(image, shape_after_crop_transposed)
                  \/ ~IsPerm(preprocessor.transpose_backward, Len(image.shape))
          THEN RevFail("ValueError")
          ELSE /\ image' = Transpose(Resize(image, shape_after_crop_transposed),
                                     preprocessor.transpose_backward)
               /\ rev_log' = rev_log \o <<"resampling checked", "resampled">>
               /\ rev_pc' = "reseat"
               /\ UNCHANGED <<logits, b, c, canvas, rev_err, rev_result, rev_first, rev_out>>
    /\ UNCHANGED <<plans, preprocessor, case, input_dir>>
    /\ UNCHANGED inf_vars
    /\ UNCHANGED train_vars
    /\ UNCHANGED gamma_vars

\* variant: the slices start at the origin instead of at the box
Reseat_AtOrigin(target, bbox, img) ==
    [shape |-> target.shape,
        data |-> [i \in Indices(target.shape) |->
            IF \A k \in 1..Len(i) : i[k] < bbox[2 * k] - bbox[2 * k - 1]
                       THEN img.data[i]
                       ELSE target.data[i]]]

\* canvas[b, c][slices] = image, slices taken from the recorded box
Reseat(target, bbox, img) ==
    [shape |-> target.shape, data |-> [i \in Indices(target.shape) |-> IF InsideBox(i, bbox)
                       THEN img.data[[k \in 1..Len(i) |-> i[k] - bbox[2 * k - 1]]]
                       ELSE target.data[i]]]

ReseatFails(cv, bb, cc, bbox, img) ==
    \/ <<bb, cc>> \notin DOMAIN cv
    \/ Len(bbox) = 5
    \/ Len(bbox) > 5 /\ Len(img.shape) # 3
    \/ Len(bbox) < 5 /\ (Len(bbox) # 4 \/ Len(img.shape) # 2)
    \/ BoxShape(bbox) # img.shape

\* the loop indices after the pair (bb, cc): <<b, c, position>>
NextPair(bb, cc, lg) ==
    IF cc + 1 < lg.channels THEN <<bb, cc + 1, "strip">>
    ELSE IF bb + 1 < lg.batch THEN <<bb + 1, 0, "strip">>
    ELSE <<bb, cc, "return">>

\* variant: the array is re-seated without the check against cropped_shape
RevReseat_Unchecked ==
    /\ rev_pc = "reseat"
    /\ IF plans.crop_to_nonzero
          /\ ReseatFails(canvas, b, c, image_properties["nonzero_box"], image)
       THEN RevFail("IndexError")
       ELSE /\ canvas' = IF plans.crop_to_nonzero
                         THEN [canvas EXCEPT ![<<b, c>>] =
                                 Reseat(@, image_properties["nonzero_box"], image)]
                         ELSE canvas
            /\ rev_out' = [p \in (DOMAIN rev_out) \cup {<<b, c>>} |->
                             IF p = <<b, c>> THEN image ELSE rev_out[p]]
            /\ rev_log' = rev_log \o <<"cropping checked", "re-seated">>
            /\ b' = NextPair(b, c, logits)[1]
            /\ c' = NextPair(b, c, logits)[2]
            /\ rev_pc' = NextPair(b, c, logits)[3]
            /\ image' = image
            /\ UNCHANGED <<logits, rev_err, rev_result, rev_first>>
    /\ UNCHANGED <<plans, preprocessor, case, input_dir>>
    /\ UNCHANGED inf_vars
    /\ UNCHANGED train_vars
    /\ UNCHANGED gamma_vars

\* third stage: check against cropped_shape, re-seat into the canvas when
\* cropping is enabled; then go on to the next channel or batch item
RevReseat ==
    /\ rev_pc = "reseat"
    /\ IF image.shape # image_properties["cropped_shape"]
       THEN RevFail("Reversing cropping")
       ELSE IF plans.crop_to_nonzero
               /\ ReseatFails(canvas, b, c, image_properties["nonzero_box"], image)
       THEN RevFail("IndexError")
       ELSE /\ canvas' = IF plans.crop_to_nonzero
                         THEN [canvas EXCEPT ![<<b, c>>] =
                                 Reseat(@, image_properties["nonzero_box"], image)]
                         ELSE canvas
            /\ rev_out' = [p \in (DOMAIN rev_out) \cup {<<b, c>>} |->
                             IF p = <<b, c>> THEN image ELSE rev_out[p]]
            /\ rev_log' = rev_log \o <<"cropping checked", "re-seated">>
            /\ b' = NextPair(b, c, logits)[1]
            /\ c' = NextPair(b, c, logits)[2]
            /\ rev_pc' = NextPair(b, c, logits)[3]
            /\ image' = image
            /\ UNCHANGED <<logits, rev_err, rev_result, rev_first>>
    /\ UNCHANGED <<plans, preprocessor, case, input_dir>>
    /\ UNCHANGED inf_vars
    /\ UNCHANGED train_vars
    /\ UNCHANGED gamma_vars

\* return canvas
RevReturn ==
    /\ rev_pc = "return"
    /\ rev_result' = canvas
    /\ rev_pc' = "done"
    /\ UNCHANGED <<logits, b, c, image, canvas, rev_err, rev_first, rev_out, rev_log>>
    /\ UNCHANGED <<plans, preprocessor, case, input_dir>>
    /\ UNCHANGED inf_vars
    /\ UNCHANGED train_vars
    /\ UNCHANGED gamma_vars

\* A caller that holds the record and the prediction of a reversed case
\* constructs a YuccaPreprocessor for the same plans file and calls its
\* reverse_preprocessing with them: __init__ leaves the permutations empty
\* and nothing has called initialize_properties on the new instance
ReverseOnNewInstance ==
    /\ inf_pc = "done"
    /\ rev_pc = "done"
    /\ rev_first = NoCanvas
    /\ preprocessor' = __init__(preprocessor.threads, preprocessor.disable_unittests)
    /\ rev_first' = rev_result
    /\ rev_result' = NoCanvas
    /\ rev_pc' = "start"
    /\ UNCHANGED <<logits, b, c, image, canvas, rev_err, rev_out, rev_log>>
    /\ UNCHANGED <<plans, case, input_dir>>
    /\ UNCHANGED inf_vars
    /\ UNCHANGED train_vars
    /\ UNCHANGED gamma_vars

\* ------------------------------------------------------------------------
\* YuccaPreprocessor.run and YuccaPreprocessor._preprocess_train_subject
\* ------------------------------------------------------------------------
\* A directory is the list of its files [name, vol] in the order subfiles
\* returns them (sorted by name). A file name is a list of tokens:
\* "Case_4_000.nii.gz" is <<"Case_", "4", "_", "000", ".nii.gz">>.
StartsWith(name, prefix) ==
    Len(prefix) <= Len(name) /\ SubSeq(name, 1, Len(prefix)) = prefix

EndsWith(name, suffix) == Len(name) > 0 /\ name[Len(name)] = suffix

\* subfiles(directory, suffix='.nii.gz')
subfiles(directory) == SelectSeq(directory, LAMBDA f : EndsWith(f.name, ".nii.gz"))

\* subject_id[:-len('.nii.gz')]
StripSuffix(name) == SubSeq(name, 1, Len(name) - 1)

\* the task list of run(): the names of the label files
subject_ids ==
    LET labels == subfiles(input_dir.labelsTr)
    IN [k \in 1..Len(labels) |-> labels[k].name]

Subjects == {StripSuffix(subject_ids[k]) : k \in 1..Len(subject_ids)}

arraypath(subject_id) == subject_id \o <<".npy">>

picklepath(subject_id) == subject_id \o <<".pkl">>

isfile(path) == path \in DOMAIN files

\* the modality files of the subject: those whose name starts with its id and '_'
imagepaths(subject_id) ==
    SelectSeq(subfiles(input_dir.imagesTr),
              LAMBDA f : StartsWith(f.name, subject_id \o <<"_">>))

\* the label file of the subject
segpath(subject_id) ==
    SelectSeq(input_dir.labelsTr, LAMBDA f : f.name = subject_id \o <<".nii.gz">>)

\* the volumes nib.load returns for the subject's files
StoredImages(subject_id) ==
    [i \in 1..Len(imagepaths(subject_id)) |-> imagepaths(subject_id)[i].vol]

StoredSeg(subject_id) == <<segpath(subject_id)[1].vol>>

\* variant: the header codes are not consulted
TrainingReorients_Always(vol) == TRUE

\* the header-validity gate of the training preprocessor
TrainingReorients(vol) == Valid(vol.qform_code) \/ Valid(vol.sform_code)

TrainFail(s, err) ==
    /\ t_pc' = [t_pc EXCEPT ![s] = "failed"]
    /\ t_err' = [t_err EXCEPT ![s] = err]
    /\ t_images' = [t_images EXCEPT ![s] = <<>>]
    /\ t_seg' = [t_seg EXCEPT ![s] = <<>>]
    /\ UNCHANGED <<t_locals, image_props, files>>

Finished == {"saved", "skipped", "failed"}

\* the place of the subject in the task list
Place(s) == CHOOSE k \in 1..Len(subject_ids) : StripSuffix(subject_ids[k]) = s

\* Pool.map cuts the task list into chunks of ceil(len / (4 * processes))
\* tasks; a worker takes a chunk and calls the function on its tasks in
\* order, and an exception of one call ends the chunk

chunksize ==
    (Len(subject_ids) + PoolFactor * preprocessor.threads - 1)
        \div (PoolFactor * preprocessor.threads)

Chunk(s) == (Place(s) - 1) \div chunksize

\* a task that is never called: an earlier task of its chunk has raised, or
\* the worker was killed in it
Dropped(s) ==
    /\ t_pc[s] = "queued"
    /\ \E x \in Subjects : /\ Chunk(x) = Chunk(s)
                           /\ Place(x) < Place(s)
                           /\ t_pc[x] \in {"failed", "killed"}

Ended(s) == t_pc[s] \in Finished \cup {"killed"} \/ Dropped(s)

\* a worker has taken the chunk
Taken(k) == \E x \in Subjects : Chunk(x) = k /\ t_pc[x] # "queued"

\* the chunks a worker of the pool is executing
BusyChunks ==
    {k \in {Chunk(x) : x \in Subjects} :
        Taken(k) /\ \E x \in Subjects : Chunk(x) = k /\ ~Ended(x)}

\* the task is the next one of a worker: the next of the chunk the worker
\* executes, or the first of the next chunk of the list for a free worker
NextTask(s) ==
    /\ t_pc[s] = "queued"
    /\ ~Dropped(s)
    /\ IF (Place(s) - 1) % chunksize = 0
       THEN /\ Cardinality(BusyChunks) < preprocessor.threads
            /\ \A k \in 0..(Chunk(s) - 1) : Taken(k)
       ELSE \E x \in Subjects : /\ Chunk(x) = Chunk(s)
                                /\ Place(x) = Place(s) - 1
                                /\ t_pc[x] \in {"saved", "skipped"}

\* run(): set up the instance and the pool and queue one task per subject
Run ==
    /\ run_pc \in {"idle", "returned", "raised"}
    /\ inf_pc = "idle"
    /\ preprocessor' = initialize_properties
    /\ run_pc' = "mapping"
    /\ run_err' = None
    /\ t_pc' = [s \in Subjects |-> "queued"]
    /\ t_images' = [s \in Subjects |-> <<>>]
    /\ t_seg' = [s \in Subjects |-> <<>>]
    /\ t_locals' = [s \in Subjects |-> NoProperties]
    /\ image_props' = [s \in Subjects |-> NoProperties]
    /\ t_err' = [s \in Subjects |-> None]
    /\ UNCHANGED <<plans, case, input_dir, files, kills>>
    /\ UNCHANGED inf_vars
    /\ UNCHANGED rev_vars
    /\ UNCHANGED gamma_vars

\* variant: the task does not look for the files of a finished case
TrainLoad_NoSkip(s) ==
    /\ run_pc = "mapping"
    /\ NextTask(s)
    /\ IF FALSE
       THEN /\ t_pc' = [t_pc EXCEPT ![s] = "skipped"]
            /\ UNCHANGED <<t_images, t_seg, t_locals, image_props, t_err, files>>
       ELSE /\ t_images' = [t_images EXCEPT ![s] = StoredImages(s)]
            /\ t_seg' = [t_seg EXCEPT ![s] = StoredSeg(s)]
            /\ image_props' = [image_props EXCEPT ![s] =
                 [f \in {"image files", "segmentation file"} |->
                    IF f = "image files"
                    THEN [i \in 1..Len(imagepaths(s)) |-> imagepaths(s)[i].name]
                    ELSE segpath(s)[1].name]]
            /\ t_pc' = [t_pc EXCEPT ![s] = "loaded"]
            /\ UNCHANGED <<t_locals, t_err, files>>
    /\ UNCHANGED <<run_pc, run_err, kills>>
    /\ UNCHANGED <<plans, preprocessor, case, input_dir>>
    /\ UNCHANGED inf_vars
    /\ UNCHANGED rev_vars
    /\ UNCHANGED gamma_vars

\* a free worker takes the next task of the list; the task skips a finished
\* case, else loads the modalities and the label
TrainLoad(s) ==
    /\ run_pc = "mapping"
    /\ NextTask(s)
    /\ IF isfile(arraypath(s)) /\ isfile(picklepath(s))
       THEN /\ t_pc' = [t_pc EXCEPT ![s] = "skipped"]
            /\ UNCHANGED <<t_images, t_seg, t_locals, image_props, t_err, files>>
       ELSE /\ t_images' = [t_images EXCEPT ![s] = StoredImages(s)]
            /\ t_seg' = [t_seg EXCEPT ![s] = StoredSeg(s)]
            /\ image_props' = [image_props EXCEPT ![s] =
                 [f \in {"image files", "segmentation file"} |->
                    IF f = "image files"
                    THEN [i \in 1..Len(imagepaths(s)) |-> imagepaths(s)[i].name]
                    ELSE segpath(s)[1].name]]
            /\ t_pc' = [t_pc EXCEPT ![s] = "loaded"]
            /\ UNCHANGED <<t_locals, t_err, files>>
    /\ UNCHANGED <<run_pc, run_err, kills>>
    /\ UNCHANGED <<plans, preprocessor, case, input_dir>>
    /\ UNCHANGED inf_vars
    /\ UNCHANGED rev_vars
    /\ UNCHANGED gamma_vars

\* variant: only the first modality is tested against the label
Registered_FirstOnly(imgs, seg, data_dimensions) ==
    /\ Len(imgs) > 0
    /\ Len(imgs[1].shape) = data_dimensions
    /\ imgs[1].shape = seg.shape
    /\ get_nib_spacing(imgs[1]) = get_nib_spacing(seg)
    /\ get_nib_orientation(imgs[1]) = get_nib_orientation(seg)

\* the registration tests of the case
Registered(imgs, seg, data_dimensions) ==
    /\ Len(imgs) > 0
    /\ Len(imgs[1].shape) = data_dimensions
    /\ imgs[1].shape = seg.shape
    /\ get_nib_spacing(imgs[1]) = get_nib_spacing(seg)
    /\ get_nib_orientation(imgs[1]) = get_nib_orientation(seg)
    /\ Len(imgs) > 1 =>
          \A i \in 1..Len(imgs) :
              /\ imgs[1].shape = imgs[i].shape
              /\ get_nib_spacing(imgs[1]) = get_nib_spacing(imgs[i])
              /\ get_nib_orientation(imgs[1]) = get_nib_orientation(imgs[i])

\* variant: without a target spacing in the plans the unit spacing is the target
TrainValidate_UnitFallback(s) ==
    /\ t_pc[s] = "loaded"
    /\ IF ~preprocessor.disable_unittests
          /\ ~Registered(t_images[s], t_seg[s][1], plans.data_dimensions)
       THEN TrainFail(s, "AssertionError")
       ELSE IF Len(t_images[s]) = 0
       THEN TrainFail(s, "IndexError")
       ELSE /\ t_locals' = [t_locals EXCEPT ![s] =
                 [original_spacing |-> get_nib_spacing(t_images[s][1]),
                  original_size |-> t_images[s][1].shape,
                  target_spacing |-> IF Len(preprocessor.target_spacing) > 0
                                     THEN preprocessor.target_spacing
                                     ELSE Ones(Len(get_nib_spacing(t_images[s][1])))]]
            /\ t_pc' = [t_pc EXCEPT ![s] = "validated"]
            /\ UNCHANGED <<t_images, t_seg, image_props, t_err, files>>
    /\ UNCHANGED <<run_pc, run_err, kills>>
    /\ UNCHANGED <<plans, preprocessor, case, input_dir>>
    /\ UNCHANGED inf_vars
    /\ UNCHANGED rev_vars
    /\ UNCHANGED gamma_vars

\* run the tests unless they are disabled, then fix the spacings
TrainValidate(s) ==
    /\ t_pc[s] = "loaded"
    /\ IF ~preprocessor.disable_unittests
          /\ ~Registered(t_images[s], t_seg[s][1], plans.data_dimensions)
       THEN TrainFail(s, "AssertionError")
       ELSE IF Len(t_images[s]) = 0
       THEN TrainFail(s, "IndexError")
       ELSE /\ t_locals' = [t_locals EXCEPT ![s] =
                 [original_spacing |-> get_nib_spacing(t_images[s][1]),
                  original_size |-> t_images[s][1].shape,
                  target_spacing |-> IF Len(preprocessor.target_spacing) > 0
                                     THEN preprocessor.target_spacing
                                     ELSE get_nib_spacing(t_images[s][1])]]
            /\ t_pc' = [t_pc EXCEPT ![s] = "validated"]
            /\ UNCHANGED <<t_images, t_seg, image_props, t_err, files>>
    /\ UNCHANGED <<run_pc, run_err, kills>>
    /\ UNCHANGED <<plans, preprocessor, case, input_dir>>
    /\ UNCHANGED inf_vars
    /\ UNCHANGED rev_vars
    /\ UNCHANGED gamma_vars

\* reorient if the header allows it, then turn the volumes into arrays
TrainOrient(s) ==
    /\ t_pc[s] = "validated"
    /\ IF TrainingReorients(t_images[s][1])
       THEN IF plans.target_coordinate_system = None
            THEN TrainFail(s, "KeyError")
            ELSE LET original_orientation == get_nib_orientation(t_images[s][1])
                     final_direction == plans.target_coordinate_system
                 IN /\ t_images' = [t_images EXCEPT ![s] =
                          [i \in 1..Len(t_images[s]) |->
                             nib_to_np(reorient_nib_image(t_images[s][i],
                                           original_orientation, final_direction))]]
                    /\ t_seg' = [t_seg EXCEPT ![s] =
                          <<nib_to_np(reorient_nib_image(t_seg[s][1],
                                          original_orientation, final_direction))>>]
                    /\ t_locals' = [t_locals EXCEPT ![s] =
                          Set(Set(t_locals[s],
                              "original_orientation", original_orientation),
                              "final_direction", final_direction)]
                    /\ t_pc' = [t_pc EXCEPT ![s] = "oriented"]
                    /\ UNCHANGED <<image_props, t_err, files>>
       ELSE /\ t_images' = [t_images EXCEPT ![s] =
                  [i \in 1..Len(t_images[s]) |-> nib_to_np(t_images[s][i])]]
            /\ t_seg' = [t_seg EXCEPT ![s] = <<nib_to_np(t_seg[s][1])>>]
            /\ t_locals' = [t_locals EXCEPT ![s] =
                  Set(Set(t_locals[s], "original_orientation", "INVALID"),
                      "final_direction", "INVALID")]
            /\ t_pc' = [t_pc EXCEPT ![s] = "oriented"]
            /\ UNCHANGED <<image_props, t_err, files>>
    /\ UNCHANGED <<run_pc, run_err, kills>>
    /\ UNCHANGED <<plans, preprocessor, case, input_dir>>
    /\ UNCHANGED inf_vars
    /\ UNCHANGED rev_vars
    /\ UNCHANGED gamma_vars

\* variant: the labels are tested only when the unit tests are enabled
TrainCheckLabels_WhenTesting(s) ==
    /\ t_pc[s] = "oriented"
    /\ IF ~preprocessor.disable_unittests /\ \E i \in Indices(t_seg[s][1].shape) :
             \A k \in 1..Len(plans.classes) : t_seg[s][1].data[i] # plans.classes[k]
       THEN TrainFail(s, "AssertionError")
       ELSE /\ t_pc' = [t_pc EXCEPT ![s] = "labels checked"]
            /\ UNCHANGED <<t_images, t_seg, t_locals, image_props, t_err, files>>
    /\ UNCHANGED <<run_pc, run_err, kills>>
    /\ UNCHANGED <<plans, preprocessor, case, input_dir>>
    /\ UNCHANGED inf_vars
    /\ UNCHANGED rev_vars
    /\ UNCHANGED gamma_vars

\* the ground truth may only hold the labels the plan declares
TrainCheckLabels(s) ==
    /\ t_pc[s] = "oriented"
    /\ IF \E i \in Indices(t_seg[s][1].shape) :
             \A k \in 1..Len(plans.classes) : t_seg[s][1].data[i] # plans.classes[k]
       THEN TrainFail(s, "AssertionError")
       ELSE /\ t_pc' = [t_pc EXCEPT ![s] = "labels checked"]
            /\ UNCHANGED <<t_images, t_seg, t_locals, image_props, t_err, files>>
    /\ UNCHANGED <<run_pc, run_err, kills>>
    /\ UNCHANGED <<plans, preprocessor, case, input_dir>>
    /\ UNCHANGED inf_vars
    /\ UNCHANGED rev_vars
    /\ UNCHANGED gamma_vars

\* crop the modalities and the label to the foreground box of the first modality
TrainCrop(s) ==
    /\ t_pc[s] = "labels checked"
    /\ IF plans.crop_to_nonzero
       THEN LET nonzero_box == get_bbox_for_foreground(t_images[s][1], 0)
            IN /\ t_images' = [t_images EXCEPT ![s] =
                     [i \in 1..Len(t_images[s]) |-> crop_to_box(t_images[s][i], nonzero_box)]]
               /\ t_seg' = [t_seg EXCEPT ![s] = <<crop_to_box(t_seg[s][1], nonzero_box)>>]
               /\ image_props' = [image_props EXCEPT ![s] =
                     Set(image_props[s], "crop_to_nonzero", nonzero_box)]
       ELSE /\ image_props' = [image_props EXCEPT ![s] =
                     Set(image_props[s], "crop_to_nonzero", <<>>)]
            /\ UNCHANGED <<t_images, t_seg>>
    /\ t_pc' = [t_pc EXCEPT ![s] = "cropped"]
    /\ UNCHANGED <<t_locals, t_err, files>>
    /\ UNCHANGED <<run_pc, run_err, kills>>
    /\ UNCHANGED <<plans, preprocessor, case, input_dir>>
    /\ UNCHANGED inf_vars
    /\ UNCHANGED rev_vars
    /\ UNCHANGED gamma_vars

\* variant: every modality is normalized with the scheme and the statistics of the first
TrainResample_LikeFirst(s) ==
    /\ t_pc[s] = "cropped"
    /\ \E seg_resize \in LabelResizeOutcomes :
           LET r == _resample_and_normalize_case(t_images[s], t_seg[s],
                    [i \in 1..Len(plans.normalization_scheme) |-> plans.normalization_scheme[1]],
                    preprocessor.transpose_forward, t_locals[s]["original_spacing"],
                    t_locals[s]["target_spacing"],
                    [i \in 1..Len(preprocessor.intensities) |-> preprocessor.intensities[1]],
                    seg_resize)
           IN IF r.ok
              THEN /\ t_images' = [t_images EXCEPT ![s] = r.images]
                   /\ t_seg' = [t_seg EXCEPT ![s] = r.seg]
                   /\ t_pc' = [t_pc EXCEPT ![s] = "resampled"]
                   /\ UNCHANGED <<t_locals, image_props, t_err, files>>
              ELSE TrainFail(s, r.err)
    /\ UNCHANGED <<run_pc, run_err, kills>>
    /\ UNCHANGED <<plans, preprocessor, case, input_dir>>
    /\ UNCHANGED inf_vars
    /\ UNCHANGED rev_vars
    /\ UNCHANGED gamma_vars

\* normalize, transpose and resample the modalities and the label
TrainResample(s) ==
    /\ t_pc[s] = "cropped"
    /\ \E seg_resize \in LabelResizeOutcomes :
           LET r == _resample_and_normalize_case(t_images[s], t_seg[s], plans.normalization_scheme,
                    preprocessor.transpose_forward, t_locals[s]["original_spacing"],
                    t_locals[s]["target_spacing"], preprocessor.intensities, seg_resize)
           IN IF r.ok
              THEN /\ t_images' = [t_images EXCEPT ![s] = r.images]
                   /\ t_seg' = [t_seg EXCEPT ![s] = r.seg]
                   /\ t_pc' = [t_pc EXCEPT ![s] = "resampled"]
                   /\ UNCHANGED <<t_locals, image_props, t_err, files>>
              ELSE TrainFail(s, r.err)
    /\ UNCHANGED <<run_pc, run_err, kills>>
    /\ UNCHANGED <<plans, preprocessor, case, input_dir>>
    /\ UNCHANGED inf_vars
    /\ UNCHANGED rev_vars
    /\ UNCHANGED gamma_vars

\* the coordinates of the nonzero voxels in row-major order, every step-th one
EveryNth(a, step) ==
    LET nz == {i \in Indices(a.shape) : a.data[i] # 0}
        rank(i) == Cardinality({j \in nz : Offset(j, a.shape, Len(a.shape))
                                             < Offset(i, a.shape, Len(a.shape))})
    IN {i \in nz : rank(i) % step = 0}

\* voxels that touch (by a face, an edge or a corner) and hold the same label
Touch(a, i, j) ==
    /\ i # j
    /\ a.data[i] = a.data[j]
    /\ \A k \in 1..Len(i) : i[k] - j[k] \in {-1, 0, 1}

RECURSIVE Flood(_, _)
Flood(a, seen) ==
    LET more == {j \in Indices(a.shape) : \E i \in seen : Touch(a, i, j)} \ seen
    IN IF more = {} THEN seen ELSE Flood(a, seen \cup more)

\* cc3d.connected_components: the components of the nonzero voxels
Components(a) == {Flood(a, {i}) : i \in {j \in Indices(a.shape) : a.data[j] # 0}}

First(a, comp) ==
    CHOOSE i \in comp : \A j \in comp :
        Offset(i, a.shape, Len(a.shape)) <= Offset(j, a.shape, Len(a.shape))

\* the voxel count of every value of the numbered array, by rising value:
\* background (when there is any) first, then the components as numbered
RECURSIVE CountsFrom(_, _)
CountsFrom(a, comps) ==
    IF comps = {} THEN <<>>
    ELSE LET first == CHOOSE x \in comps : \A y \in comps :
                          Offset(First(a, x), a.shape, Len(a.shape))
                            <= Offset(First(a, y), a.shape, Len(a.shape))
         IN <<Cardinality(first)>> \o CountsFrom(a, comps \ {first})

UniqueCounts(a) ==
    LET bg == {i \in Indices(a.shape) : a.data[i] = 0}
    IN (IF bg = {} THEN <<>> ELSE <<Cardinality(bg)>>) \o CountsFrom(a, Components(a))

RECURSIVE Product(_)
Product(s) == IF Len(s) = 0 THEN 1 ELSE Head(s) * Product(Tail(s))

\* stack the channels, collect the foreground statistics and fill the record
TrainStack(s) ==
    /\ t_pc[s] = "resampled"
    /\ IF \E i \in 1..Len(t_images[s]) : t_images[s][i].shape # t_seg[s][1].shape
       THEN TrainFail(s, "ValueError")
       ELSE LET stacked == t_images[s] \o t_seg[s]
                label == stacked[Len(stacked)]
                n_cc == Cardinality(Components(label))
                counts == Tail(UniqueCounts(label))
            IN /\ t_images' = [t_images EXCEPT ![s] = stacked]
               /\ image_props' = [image_props EXCEPT ![s] =
                    [f \in (DOMAIN image_props[s]) \cup
                           {"original_spacing", "original_size", "original_orientation",
                            "new_spacing", "new_size", "new_direction",
                            "foreground_locations", "n_cc", "size_cc"} |->
                       CASE f = "original_spacing" -> t_locals[s]["original_spacing"]
                         [] f = "original_size" -> t_locals[s]["original_size"]
                         [] f = "original_orientation" -> t_locals[s]["original_orientation"]
                         [] f = "new_spacing" -> TakeAxes(t_locals[s]["target_spacing"],
                                                          preprocessor.transpose_forward)
                         [] f = "new_size" -> stacked[1].shape
                         [] f = "new_direction" -> t_locals[s]["final_direction"]
                         [] f = "foreground_locations" -> EveryNth(label, 10)
                         [] f = "n_cc" -> n_cc
                         [] f = "size_cc" ->
                              IF n_cc = 0 THEN <<>>
                              ELSE [k \in 1..Len(counts) |->
                                      counts[k] * Product(t_locals[s]["target_spacing"])]
                         [] OTHER -> image_props[s][f]]]
               /\ t_pc' = [t_pc EXCEPT ![s] = "stacked"]
               /\ UNCHANGED <<t_seg, t_locals, t_err, files>>
    /\ UNCHANGED <<run_pc, run_err, kills>>
    /\ UNCHANGED <<plans, preprocessor, case, input_dir>>
    /\ UNCHANGED inf_vars
    /\ UNCHANGED rev_vars
    /\ UNCHANGED gamma_vars

WriteFile(fs, name, content) ==
    [f \in (DOMAIN fs) \cup {name} |-> IF f = name THEN content ELSE fs[f]]

\* variant: every task saves its array under the name of the first subject
TrainSaveArray_Shared(s) ==
    /\ t_pc[s] = "stacked"
    /\ files' = WriteFile(files, arraypath(StripSuffix(subject_ids[1])),
                          [array |-> t_images[s]])
    /\ t_pc' = [t_pc EXCEPT ![s] = "array saved"]
    /\ UNCHANGED <<t_images, t_seg, t_locals, image_props, t_err>>
    /\ UNCHANGED <<run_pc, run_err, kills>>
    /\ UNCHANGED <<plans, preprocessor, case, input_dir>>
    /\ UNCHANGED inf_vars
    /\ UNCHANGED rev_vars
    /\ UNCHANGED gamma_vars

\* np.save(arraypath, images)
TrainSaveArray(s) ==
    /\ t_pc[s] = "stacked"
    /\ files' = WriteFile(files, arraypath(s), [array |-> t_images[s]])
    /\ t_pc' = [t_pc EXCEPT ![s] = "array saved"]
    /\ UNCHANGED <<t_images, t_seg, t_locals, image_props, t_err>>
    /\ UNCHANGED <<run_pc, run_err, kills>>
    /\ UNCHANGED <<plans, preprocessor, case, input_dir>>
    /\ UNCHANGED inf_vars
    /\ UNCHANGED rev_vars
    /\ UNCHANGED gamma_vars

\* save_pickle(image_props, picklepath)
TrainSavePickle(s) ==
    /\ t_pc[s] = "array saved"
    /\ files' = WriteFile(files, picklepath(s), [record |-> image_props[s]])
    /\ t_pc' = [t_pc EXCEPT ![s] = "saved"]
    /\ UNCHANGED <<t_images, t_seg, t_locals, image_props, t_err>>
    /\ UNCHANGED <<run_pc, run_err, kills>>
    /\ UNCHANGED <<plans, preprocessor, case, input_dir>>
    /\ UNCHANGED inf_vars
    /\ UNCHANGED rev_vars
    /\ UNCHANGED gamma_vars

\* p.map returns when every chunk has ended, and raises the error of a
\* failed task; run() closes and joins the pool only when none has failed
RunJoin ==
    /\ run_pc = "mapping"
    /\ \A s \in Subjects : Ended(s)
    /\ \A s \in Subjects : t_pc[s] # "killed"
    /\ IF \E s \in Subjects : t_pc[s] = "failed"
       THEN /\ run_pc' = "raised"
            /\ \E s \in Subjects : t_pc[s] = "failed" /\ run_err' = t_err[s]
       ELSE /\ run_pc' = "returned"
            /\ run_err' = None
    /\ UNCHANGED <<t_pc, t_images, t_seg, t_locals, image_props, t_err, files, kills>>
    /\ UNCHANGED <<plans, preprocessor, case, input_dir>>
    /\ UNCHANGED inf_vars
    /\ UNCHANGED rev_vars
    /\ UNCHANGED gamma_vars

\* The worker that executes the task is killed (by a signal, or by the
\* system when memory runs out) between two steps: the task and the rest of
\* its chunk are lost, the pool starts another worker for the chunks that are
\* left, and the result of the lost chunk never reaches p.map
Kill(s) ==
    /\ run_pc = "mapping"
    /\ t_pc[s] \notin Finished \cup {"idle", "queued", "killed"}
    /\ kills < MaxKills
    /\ kills' = kills + 1
    /\ t_pc' = [t_pc EXCEPT ![s] = "killed"]
    /\ t_images' = [t_images EXCEPT ![s] = <<>>]
    /\ t_seg' = [t_seg EXCEPT ![s] = <<>>]
    /\ UNCHANGED <<run_pc, run_err, t_locals, image_props, t_err, files>>
    /\ UNCHANGED <<plans, preprocessor, case, input_dir>>
    /\ UNCHANGED inf_vars
    /\ UNCHANGED rev_vars
    /\ UNCHANGED gamma_vars

\* p.map waits for the lost chunk for ever; the user interrupts run(), which
\* ends the workers wherever they are
Interrupt ==
    /\ run_pc = "mapping"
    /\ \E s \in Subjects : t_pc[s] = "killed"
    /\ run_pc' = "raised"
    /\ run_err' = "KeyboardInterrupt"
    /\ t_pc' = [s \in Subjects |->
                 IF t_pc[s] \in Finished \cup {"queued"} THEN t_pc[s] ELSE "killed"]
    /\ t_images' = [s \in Subjects |-> IF t_pc[s] \in Finished THEN t_images[s] ELSE <<>>]
    /\ t_seg' = [s \in Subjects |-> IF t_pc[s] \in Finished THEN t_seg[s] ELSE <<>>]
    /\ UNCHANGED <<t_locals, image_props, t_err, files, kills>>
    /\ UNCHANGED <<plans, preprocessor, case, input_dir>>
    /\ UNCHANGED inf_vars
    /\ UNCHANGED rev_vars
    /\ UNCHANGED gamma_vars

\* ------------------------------------------------------------------------
\* Gamma (image_processing/transforms/Gamma.py)
\* ------------------------------------------------------------------------
\* Probabilities, random numbers and gamma values are counted in halves (1
\* is 0.5, 2 is 1.0); epsilon is counted in units of 1e-7. A channel is a
\* record [values, power, negated]: the voxel values, the gamma correction
\* applied to them (none, or one record of its operands) and whether the
\* result was negated.
MinIn(s) == CHOOSE x \in {s[k] : k \in 1..Len(s)} : \A k \in 1..Len(s) : x <= s[k]

MaxIn(s) == CHOOSE x \in {s[k] : k \in 1..Len(s)} : \A k \in 1..Len(s) : x >= s[k]

Raw(values) == [values |-> values, power |-> <<>>, negated |-> FALSE]

\* a Python bool used as a number: True is 1.0, False is 0.0
AsNumber(flag) == IF flag THEN 10000000 ELSE 0

\* the default of the parameter epsilon of augment_gamma, 1e-7
epsilon_default == 1

\* np.random.random() and np.random.uniform(): below 0.5, or not
Uniform == {0, 1}

\* np.random.uniform(low, high): the ends stand for the values between them
uniform(low, high) == {low, high}

\* the gamma that augment_gamma samples: below 1 for half of the draws if
\* the range starts below 1, else between max(low, 1) and high
SampledGamma(gamma_range) ==
    UNION {IF u < 1 /\ gamma_range[1] < 2
           THEN uniform(gamma_range[1], 2)
           ELSE uniform(IF gamma_range[1] > 2 THEN gamma_range[1] ELSE 2, gamma_range[2]) :
           u \in Uniform}

Negated(values) == [k \in 1..Len(values) |-> 0 - values[k]]

\* all the voxel values of the sample, channel after channel
Flat(data_sample) ==
    [k \in 1..(Len(data_sample) * Len(data_sample[1].values)) |->
        data_sample[((k - 1) \div Len(data_sample[1].values)) + 1]
            .values[((k - 1) % Len(data_sample[1].values)) + 1]]

\* augment_gamma; gammas[1] is the gamma sampled for the whole sample,
\* gammas[c] the gamma sampled for channel c in the per-channel branch
augment_gamma(data_sample, gamma_range, invert_image, epsilon, per_channel, clip_to_input_range, gammas) ==
    LET sample == [ch \in 1..Len(data_sample) |->
                     IF invert_image THEN Negated(data_sample[ch].values)
                     ELSE data_sample[ch].values]
        whole == Flat([ch \in 1..Len(sample) |-> Raw(sample[ch])])
    IN [ch \in 1..Len(data_sample) |->
          LET of == IF per_channel THEN sample[ch] ELSE whole
              img_min == MinIn(of)
              img_max == MaxIn(of)
          IN [values |-> sample[ch],
              power |-> <<[img_min |-> img_min,
                           img_range |-> img_max - img_min,
                           epsilon |-> epsilon,
                           gamma |-> IF per_channel THEN gammas[ch] ELSE gammas[1],
                           times_epsilon |-> IF per_channel THEN epsilon ELSE 0,
                           clip |-> clip_to_input_range]>>,
              negated |-> invert_image]]

\* Gamma.__init__ with its defaults, but for the arguments given
Gamma(p_per_sample, p_invert_image, per_channel, clip_to_input_range) ==
    [p_per_sample |-> p_per_sample,
     p_invert_image |-> p_invert_image,
     gamma_range |-> <<1, 4>>,
     per_channel |-> per_channel,
     clip_to_input_range |-> clip_to_input_range]

\* Gamma.__gamma__: the call of augment_gamma with four positional arguments
\* (data_sample, gamma_range, invert_image, epsilon) and one keyword argument
\* (clip_to_input_range); the parameter per_channel of augment_gamma keeps its
\* default, False
__gamma__(self, img, gamma_range, invert_image, per_channel, gammas) ==
    augment_gamma(img, gamma_range, invert_image, AsNumber(per_channel), FALSE,
                  self.clip_to_input_range, gammas)

\* the batches given to the transform: MaxBatch samples of MaxModalities
\* channels of two voxels, graded or constant, with the axes (b, c, x, y) or,
\* short of one axis, (b, c, x)
Batches ==
    {[shape |-> IF full THEN <<MaxBatch, MaxModalities, 2, 1>>
                ELSE <<MaxBatch, MaxModalities, 2>>,
      data |-> [s \in 1..MaxBatch |-> [ch \in 1..MaxModalities |->
                   Raw(IF graded THEN <<s, s + ch>> ELSE <<s, s>>)]]] :
     full \in BOOLEAN, graded \in BOOLEAN}

NoBatch == [shape |-> <<>>, data |-> <<>>]

\* no transform is in use
NoTransform ==
    /\ gamma = Gamma(2, 0, TRUE, FALSE)
    /\ data_dict = NoBatch
    /\ gamma_pc = "idle"
    /\ gamma_b = 0
    /\ gamma_err = None

\* the pipeline takes no step while the transform is called
pipeline_vars == <<plans, preprocessor, case, input_dir, inf_vars, rev_vars, train_vars>>

\* __call__: the test of the number of axes
GammaCall ==
    /\ gamma_pc = "idle"
    /\ IF Len(data_dict.shape) = 5 \/ Len(data_dict.shape) = 4
       THEN gamma_pc' = "loop" /\ gamma_err' = None
       ELSE gamma_pc' = "failed" /\ gamma_err' = "AssertionError"
    /\ gamma_b' = 0
    /\ UNCHANGED <<gamma, data_dict>>
    /\ UNCHANGED pipeline_vars

\* one pass of the loop over the batch: the sample is selected with
\* probability p_per_sample, inverted with probability p_invert_image
\* (get_params), and replaced by the result of __gamma__
GammaSample ==
    /\ gamma_pc = "loop"
    /\ gamma_b < data_dict.shape[1]
    /\ \E u \in Uniform : \E v \in Uniform :
       \E gammas \in [1..Len(data_dict.data[gamma_b + 1]) -> SampledGamma(gamma.gamma_range)] :
          IF u < gamma.p_per_sample
          THEN LET do_invert == v < gamma.p_invert_image
               IN data_dict' = [data_dict EXCEPT !.data[gamma_b + 1] =
                     __gamma__(gamma, data_dict.data[gamma_b + 1], gamma.gamma_range,
                               do_invert, gamma.per_channel, gammas)]
          ELSE data_dict' = data_dict
    /\ gamma_b' = gamma_b + 1
    /\ UNCHANGED <<gamma, gamma_pc, gamma_err>>
    /\ UNCHANGED pipeline_vars

\* the loop has ended: __call__ returns the dictionary
GammaReturn ==
    /\ gamma_pc = "loop"
    /\ gamma_b = data_dict.shape[1]
    /\ gamma_pc' = "returned"
    /\ UNCHANGED <<gamma, data_dict, gamma_b, gamma_err>>
    /\ UNCHANGED pipeline_vars

\* ------------------------------------------------------------------------
\* The specification
\* ------------------------------------------------------------------------
\* the state after construction: no call has been made
Constructed ==
    /\ patch_size = <<>>
    /\ inf_pc = "idle"
    /\ images = <<>>
    /\ prev_images = <<>>
    /\ image_properties = NoProperties
    /\ inf_err = None
    /\ tensor = NoTensor
    /\ logits = NoTensor
    /\ rev_pc = "idle"
    /\ b = 0
    /\ c = 0
    /\ image = NoArray
    /\ canvas = NoCanvas
    /\ rev_err = None
    /\ rev_result = NoCanvas
    /\ rev_first = NoCanvas
    /\ rev_out = NoCanvas
    /\ rev_log = <<>>
    /\ run_pc = "idle"
    /\ run_err = None
    /\ t_pc = [s \in Subjects |-> "idle"]
    /\ t_images = [s \in Subjects |-> <<>>]
    /\ t_seg = [s \in Subjects |-> <<>>]
    /\ t_locals = [s \in Subjects |-> NoProperties]
    /\ image_props = [s \in Subjects |-> NoProperties]
    /\ t_err = [s \in Subjects |-> None]
    /\ files = NoProperties
    /\ kills = 0

\* the state after construction: the plans file is loaded
Init ==
    /\ \/ \E run \in GeometryRuns \cup HeaderRuns \cup ResampleRuns :
            /\ plans = run.plans
            /\ case = run.case
            /\ input_dir = Stored(SubjectId(1), run.case)
            /\ preprocessor = __init__(1, FALSE)
       \/ \E run \in FaultyRuns \cup BatchRuns \cup ExtendedIdRuns \cup ChunkedRuns :
            /\ plans = run.plans
            /\ case = run.case
            /\ input_dir = run.input_dir
            /\ preprocessor = __init__(run.threads, run.disable_unittests)
    /\ Constructed
    /\ NoTransform

Next ==
    \/ InfLoad
    \/ InfOrient
    \/ InfCrop
    \/ InfResample
    \/ InfPad
    \/ InfReturn
    \/ CallReverse
    \/ RevStart
    \/ RevStripPad
    \/ RevResample
    \/ RevReseat
    \/ RevReturn
    \/ ReverseOnNewInstance
    \/ Run
    \/ \E s \in Subjects : TrainLoad(s)
    \/ \E s \in Subjects : TrainValidate(s)
    \/ \E s \in Subjects : TrainOrient(s)
    \/ \E s \in Subjects : TrainCheckLabels(s)
    \/ \E s \in Subjects : TrainCrop(s)
    \/ \E s \in Subjects : TrainResample(s)
    \/ \E s \in Subjects : TrainStack(s)
    \/ \E s \in Subjects : TrainSaveArray(s)
    \/ \E s \in Subjects : TrainSavePickle(s)
    \/ RunJoin
    \/ \E s \in Subjects : Kill(s)
    \/ Interrupt

Spec == Init /\ [][Next]_vars

\* the state after the construction of a Gamma transform and of a batch
GammaInit ==
    /\ \E run \in {CHOOSE r \in GeometryRuns : TRUE} :
          /\ plans = run.plans
          /\ case = run.case
          /\ input_dir = Stored(SubjectId(1), run.case)
          /\ preprocessor = __init__(1, FALSE)
    /\ Constructed
    /\ \E p_per_sample \in 0..2 : \E p_invert_image \in 0..1 :
       \E per_channel \in BOOLEAN : \E clip_to_input_range \in BOOLEAN :
          gamma = Gamma(p_per_sample, p_invert_image, per_channel, clip_to_input_range)
    /\ data_dict \in Batches
    /\ gamma_pc = "idle"
    /\ gamma_b = 0
    /\ gamma_err = None

GammaNext ==
    \/ GammaCall
    \/ GammaSample
    \/ GammaReturn

GammaSpec == GammaInit /\ [][GammaNext]_vars

\* ------------------------------------------------------------------------
\* Properties of the reverse pipeline
\* ------------------------------------------------------------------------
Pairs(lg) == (0..(lg.batch - 1)) \X (0..(lg.channels - 1))

\* the array holds img inside the box and zero outside it
SeatedIn(a, bbox, img) ==
    \A i \in Indices(a.shape) :
        a.data[i] = IF InsideBox(i, bbox)
                    THEN img.data[[k \in 1..Len(i) |-> i[k] - bbox[2 * k - 1]]]
                    ELSE 0

\* C1: with crop_to_nonzero false the returned canvas equals, for every batch
\* item and class channel, the reversed array (it is not left at zero).
C1_UncroppedCanvasIsReversal ==
    (rev_pc = "done" /\ ~plans.crop_to_nonzero) =>
        \A p \in DOMAIN rev_out :
            p \in DOMAIN rev_result /\ rev_result[p] = rev_out[p]

\* C2: with cropping enabled the returned canvas has the uncropped shape,
\* equals the reversed array inside the recorded box and is zero outside it;
\* and re-seating the crop of a volume at its foreground box (4 entries in 2D,
\* 6 in 3D) into a zero canvas gives the volume back.
C2_ReseatRoundTrip ==
    /\ (rev_pc = "done" /\ plans.crop_to_nonzero) =>
          \A p \in DOMAIN rev_result :
              /\ rev_result[p].shape = image_properties["uncropped_shape"]
              /\ p \in DOMAIN rev_out
              /\ SeatedIn(rev_result[p], image_properties["nonzero_box"], rev_out[p])
    /\ (inf_pc = "cropped" /\ plans.crop_to_nonzero) =>
          /\ Len(image_properties["nonzero_box"]) = 2 * Len(prev_images[1].shape)
          /\ ~ReseatFails(NewCanvas(1, image_properties["uncropped_shape"]), 0, 0,
                          image_properties["nonzero_box"], images[1])
          /\ Reseat(Zeros(image_properties["uncropped_shape"]),
                    image_properties["nonzero_box"], images[1]) = prev_images[1]

\* a 3D canvas was returned whose box is smaller than the canvas
C2_Witness ==
    /\ rev_pc = "done"
    /\ plans.crop_to_nonzero
    /\ Len(image_properties["nonzero_box"]) = 6
    /\ image_properties["cropped_shape"] # image_properties["uncropped_shape"]
    /\ image_properties["nonzero_box"][1] > 0

FullOrder == <<"padding checked", "padding stripped", "resampling checked", "resampled",
               "cropping checked", "re-seated">>

\* C3: each array goes through the stages in the fixed order, and no stage
\* runs before the shape check of the stage before it has passed.
C3_StagesInOrder ==
    [][/\ (rev_pc' = "resample" /\ rev_pc # "resample") =>
              /\ rev_pc = "strip"
              /\ logits.shape = image_properties["padded_shape"]
              /\ image' = Strip(PredictionAt(b, c, logits.shape), image_properties["padding"])
       /\ (rev_pc' = "reseat" /\ rev_pc # "reseat") =>
              /\ rev_pc = "resample"
              /\ image.shape = image_properties["resampled_transposed_shape"]
              /\ image' = Transpose(
                     Resize(image, TakeAxes(image_properties["cropped_shape"],
                                            preprocessor.transpose_forward)),
                     preprocessor.transpose_backward)
       /\ (DOMAIN rev_out' # DOMAIN rev_out \/ (rev_pc' = "return" /\ rev_pc # "return")) =>
              /\ rev_pc = "reseat"
              /\ image.shape = image_properties["cropped_shape"]
              /\ rev_out'[<<b, c>>] = image
       /\ \E n \in 0..Len(FullOrder) : rev_log' = SubSeq(FullOrder, 1, n)
      ]_vars

\* the last array of a prediction has passed all six steps
C3_Witness == rev_pc = "return" /\ rev_log = FullOrder /\ b = 0 /\ c > 0

\* C4: stripping the recorded pad widths from a padded array gives back the
\* array before padding, of shape resampled_transposed_shape, in 2D and 3D and
\* also where a pad width is zero; and so the stripped prediction has that
\* shape and holds the prediction's values at the padded positions.
C4_PadStripRoundTrip ==
    /\ inf_pc = "padded" =>
          /\ Len(image_properties["padding"]) = 2 * Len(prev_images[1].shape)
          /\ \A i \in 1..Len(images) :
                /\ ~StripFails(images[i], image_properties["padding"])
                /\ Strip(images[i], image_properties["padding"]) = prev_images[i]
                /\ prev_images[i].shape = image_properties["resampled_transposed_shape"]
    /\ rev_pc = "resample" =>
          /\ image.shape = image_properties["resampled_transposed_shape"]
          /\ \A i \in Indices(image.shape) :
                image.data[i] =
                    PredictionAt(b, c, logits.shape).data[
                        [k \in 1..Len(i) |-> i[k] + image_properties["padding"][2 * k - 1]]]

\* a 3D array was padded by an odd amount on one axis and not at all on another
C4_Witness ==
    /\ inf_pc = "padded"
    /\ Len(image_properties["padding"]) = 6
    /\ \E k \in 1..3 : image_properties["padding"][2 * k - 1] # image_properties["padding"][2 * k]
    /\ \E k \in 1..3 : image_properties["padding"][2 * k - 1] = 0
                        /\ image_properties["padding"][2 * k] = 0

\* the backward permutation undoes the forward one
InversePermutations(fw, bw) ==
    /\ Len(fw) = Len(bw)
    /\ IsPerm(fw, Len(fw))
    /\ IsPerm(bw, Len(bw))
    /\ \A k \in 1..Len(fw) : fw[bw[k] + 1] = k - 1

\* the call of reverse_preprocessing under way is the one on a new instance
OnNewInstance == rev_first # NoCanvas

\* C5: with inverse permutations, reversing a prediction of the tensor's
\* shape with the record of that tensor, on the instance that preprocessed
\* the case, passes the three shape checks and returns a canvas of shape
\* uncropped_shape that is zero outside the box.
C5_ShapeRoundTrip ==
    (/\ InversePermutations(plans.transpose_forward, plans.transpose_backward)
     /\ logits.batch = tensor.batch
     /\ logits.shape = tensor.shape
     /\ ~OnNewInstance
     /\ rev_pc # "idle") =>
        /\ rev_pc # "failed"
        /\ rev_pc = "resample" => image.shape = image_properties["resampled_transposed_shape"]
        /\ rev_pc = "reseat" => image.shape = image_properties["cropped_shape"]
        /\ rev_pc = "done" =>
              \A p \in Pairs(logits) :
                  /\ p \in DOMAIN rev_result
                  /\ rev_result[p].shape = image_properties["uncropped_shape"]
                  /\ plans.crop_to_nonzero =>
                        \A i \in Indices(rev_result[p].shape) :
                            ~InsideBox(i, image_properties["nonzero_box"]) =>
                                rev_result[p].data[i] = 0

\* a cropped, transposed and coarsened 3D case was reversed
C5_Witness ==
    /\ rev_pc = "done"
    /\ plans.crop_to_nonzero
    /\ plans.transpose_forward = <<1, 2, 0>>
    /\ plans.target_spacing = <<2, 1, 1>>
    /\ image_properties["cropped_shape"] # image_properties["uncropped_shape"]
    /\ image_properties["resampled_transposed_shape"] # image_properties["cropped_shape"]
    /\ image_properties["padded_shape"] # image_properties["resampled_transposed_shape"]

StageErrors == {"Reversing padding", "Reversing resampling and tranposition",
                "Reversing cropping"}

\* C6: a prediction with any batch size is reversed completely: the call
\* fails only on a shape check, and the returned canvas has an entry for
\* every pair (b, c), holding the reversed array where cropping is enabled.
C6_EveryPairReversed ==
    /\ rev_pc = "failed" => rev_err \in StageErrors
    /\ rev_pc = "done" =>
          \A p \in Pairs(logits) :
              /\ p \in DOMAIN rev_result
              /\ plans.crop_to_nonzero =>
                    SeatedIn(rev_result[p], image_properties["nonzero_box"], rev_out[p])

\* C7: a shape that differs at one of the three checks ends the call with
\* the error of that stage, no canvas is returned, and nothing follows.
C7_ShapeMismatchIsFatal ==
    [][/\ (rev_pc = "strip" /\ logits.shape # image_properties["padded_shape"]) =>
              (rev_pc' = "failed" /\ rev_err' = "Reversing padding")
       /\ (rev_pc = "resample"
             /\ image.shape # image_properties["resampled_transposed_shape"]) =>
              (rev_pc' = "failed" /\ rev_err' = "Reversing resampling and tranposition")
       /\ (rev_pc = "reseat" /\ image.shape # image_properties["cropped_shape"]) =>
              (rev_pc' = "failed" /\ rev_err' = "Reversing cropping")
       /\ rev_pc' = "failed" => (DOMAIN rev_result' = {} /\ DOMAIN canvas' = {})
       /\ rev_pc = "failed" => rev_pc' = "failed"
      ]_vars

\* the cropping check has failed after the first two checks passed
C7_Witness ==
    /\ rev_pc = "failed"
    /\ rev_err = "Reversing cropping"
    /\ logits.shape = image_properties["padded_shape"]

RecordFields == {"original_spacing", "original_shape", "original_orientation",
                 "uncropped_shape", "cropped_shape", "resampled_transposed_shape",
                 "padded_shape", "padding", "affine", "qform", "sform"}

\* C8: the record returned by preprocess_case_for_inference has every field
\* of the ImageProperties table, and nonzero_box when cropping is enabled.
C8_RecordComplete ==
    inf_pc = "done" =>
        /\ RecordFields \subseteq DOMAIN image_properties
        /\ plans.crop_to_nonzero => Has(image_properties, "nonzero_box")

\* ------------------------------------------------------------------------
\* Properties of the orientation step
\* ------------------------------------------------------------------------
HeaderValid(vol) == Valid(vol.qform_code) \/ Valid(vol.sform_code)

AsLoaded(vols) == [i \in 1..Len(vols) |-> nib_to_np(vols[i])]

Reoriented(vols, from, to) ==
    [i \in 1..Len(vols) |-> nib_to_np(reorient_nib_image(vols[i], from, to))]

\* C9: inference attempts reorientation exactly when training does: if and
\* only if the qform code or the sform code of the first volume is valid.
C9_SameGateAsTraining ==
    /\ Has(image_properties, "reoriented") =>
          /\ image_properties["reoriented"] = TrainingReorients(case.images[1])
          /\ image_properties["reoriented"] = HeaderValid(case.images[1])
    /\ (inf_pc = "failed" /\ inf_err = "KeyError") => HeaderValid(case.images[1])
    /\ \A s \in Subjects : Has(t_locals[s], "original_orientation") =>
          (t_locals[s]["original_orientation"] # "INVALID") = HeaderValid(StoredImages(s)[1])

\* C10: with neither code valid no volume is reoriented and the record says
\* so (training: 'INVALID' twice, inference: reoriented = False); where a
\* reorientation is applied the record holds the orientations it was applied with.
C10_OrientationRecorded ==
    /\ \A s \in Subjects : t_pc[s] = "oriented" =>
          IF HeaderValid(StoredImages(s)[1])
          THEN /\ t_locals[s]["original_orientation"] = StoredImages(s)[1].orientation
               /\ t_locals[s]["final_direction"] = plans.target_coordinate_system
               /\ t_images[s] = Reoriented(StoredImages(s), t_locals[s]["original_orientation"],
                                           t_locals[s]["final_direction"])
               /\ t_seg[s] = Reoriented(StoredSeg(s), t_locals[s]["original_orientation"],
                                        t_locals[s]["final_direction"])
          ELSE /\ t_images[s] = AsLoaded(StoredImages(s))
               /\ t_seg[s] = AsLoaded(StoredSeg(s))
    /\ \A s \in Subjects : isfile(picklepath(s)) =>
          LET record == files[picklepath(s)].record
          IN IF HeaderValid(StoredImages(s)[1])
             THEN /\ record["original_orientation"] = StoredImages(s)[1].orientation
                  /\ record["new_direction"] = plans.target_coordinate_system
             ELSE /\ record["original_orientation"] = "INVALID"
                  /\ record["new_direction"] = "INVALID"
    /\ inf_pc = "oriented" =>
          /\ ~HeaderValid(case.images[1]) => ~image_properties["reoriented"]
          /\ IF image_properties["reoriented"]
             THEN /\ image_properties["original_orientation"] = case.images[1].orientation
                  /\ images = Reoriented(case.images,
                                         image_properties["original_orientation"],
                                         image_properties["new_orientation"])
                  /\ image_properties["new_orientation"] = plans.target_coordinate_system
             ELSE images = AsLoaded(case.images)
    /\ inf_pc = "done" =>
          /\ ~HeaderValid(case.images[1]) => ~image_properties["reoriented"]
          /\ image_properties["reoriented"] =>
                /\ image_properties["original_orientation"] = case.images[1].orientation
                /\ image_properties["new_orientation"] = plans.target_coordinate_system

\* a training case with neither code valid, stored in another orientation
\* than the plan's, has been persisted
C10_Witness ==
    \E s \in Subjects :
        /\ t_pc[s] = "saved"
        /\ ~HeaderValid(StoredImages(s)[1])
        /\ plans.target_coordinate_system \notin {None, StoredImages(s)[1].orientation}

\* ------------------------------------------------------------------------
\* Properties of the validation and of the errors
\* ------------------------------------------------------------------------
\* the modalities agree in shape, spacing and orientation code
Consistent(vols) ==
    \A i \in 1..Len(vols) :
        /\ vols[i].shape = vols[1].shape
        /\ get_nib_spacing(vols[i]) = get_nib_spacing(vols[1])
        /\ get_nib_orientation(vols[i]) = get_nib_orientation(vols[1])

\* C11: preprocess_case_for_inference validates its modality volumes: it
\* returns a tensor and a record only for volumes of equal shape, spacing
\* and orientation code.
C11_InferenceValidates ==
    inf_pc = "done" => Consistent(case.images)

\* the case has been preprocessed: its array file and its metadata file exist
Persisted(s) == isfile(arraypath(s)) /\ isfile(picklepath(s))

\* C12: a task that finds both files of its case skips the case: it loads
\* nothing, fills no record and leaves the target directory as it is; and
\* once every case has both files no step of any run writes.
C12_Idempotent ==
    [][/\ \A s \in Subjects :
            (t_pc[s] = "queued" /\ Persisted(s) /\ t_pc'[s] # "queued") =>
                /\ t_pc'[s] = "skipped"
                /\ t_images'[s] = <<>>
                /\ t_seg'[s] = <<>>
                /\ image_props'[s] = NoProperties
                /\ files' = files
       /\ (\A s \in Subjects : Persisted(s)) => files' = files]_vars

\* a second run has skipped a case that the first one persisted
C12_Witness ==
    /\ run_pc = "returned"
    /\ \E s \in Subjects : t_pc[s] = "skipped" /\ Persisted(s)

\* C13: in a batch of several cases the failure of one case's task
\* (consistency, label-domain or missing-data error) stays with that case:
\* run() completes and every other case has been persisted.
C13_ErrorIsolated ==
    (/\ run_pc \in {"returned", "raised"}
     /\ Cardinality(Subjects) > 1
     /\ Cardinality({s \in Subjects : t_pc[s] = "failed"}) = 1
     /\ \E s \in Subjects : t_pc[s] = "failed" /\ t_err[s] = "AssertionError") =>
        /\ run_pc = "returned"
        /\ \A x \in Subjects : t_pc[x] # "failed" => Persisted(x)

\* the raw case of the subject is well formed: it has a modality, the plan's
\* dimensionality, and its modalities and label agree in shape, spacing and
\* orientation code
CaseRegistered(s) ==
    /\ Len(StoredImages(s)) > 0
    /\ Len(StoredImages(s)[1].shape) = plans.data_dimensions
    /\ Consistent(StoredImages(s) \o StoredSeg(s))

\* C15: with the tests enabled only a well-formed case gets past the tests
\* and is persisted; any other case fails with the tests' error before it is
\* reoriented or cropped, and no file of it is written.
C15_ValidationGuards ==
    ~preprocessor.disable_unittests =>
        \A s \in Subjects :
            LET registered == CaseRegistered(s)
            IN /\ t_pc[s] \notin {"idle", "queued", "loaded", "failed", "skipped", "killed"} =>
                     registered
               /\ (isfile(arraypath(s)) \/ isfile(picklepath(s))) => registered
               /\ (t_pc[s] = "failed" /\ ~registered) =>
                     /\ t_err[s] = "AssertionError"
                     /\ t_locals[s] = NoProperties
                     /\ ~Has(image_props[s], "crop_to_nonzero")

\* the task of a case whose last modality has another spacing than the first
\* has failed in the tests
C15_Witness ==
    /\ ~preprocessor.disable_unittests
    /\ \E s \in Subjects :
          /\ t_pc[s] = "failed"
          /\ Len(StoredImages(s)) > 1
          /\ StoredImages(s)[1].shape = StoredImages(s)[Len(StoredImages(s))].shape
          /\ get_nib_spacing(StoredImages(s)[1])
                # get_nib_spacing(StoredImages(s)[Len(StoredImages(s))])

\* every value of the subject's label volume is a class of the plan
LabelsDeclared(s) ==
    \A i \in Indices(StoredSeg(s)[1].shape) :
        \E k \in 1..Len(plans.classes) : StoredSeg(s)[1].data[i] = plans.classes[k]

\* C16: whether the unit tests are enabled or not, a case whose label holds
\* a value that is no class of the plan never gets past the label test and
\* has no file written; once its volumes are oriented, its task's next step
\* fails with the test's error, before the crop (unless its worker is killed).
C16_LabelDomain ==
    /\ [](\A s \in Subjects : ~LabelsDeclared(s) =>
            /\ t_pc[s] \in {"idle", "queued", "loaded", "validated", "oriented", "failed",
                            "killed"}
            /\ ~isfile(arraypath(s))
            /\ ~isfile(picklepath(s))
            /\ ~Has(image_props[s], "crop_to_nonzero"))
    /\ [][\A s \in Subjects :
            (~LabelsDeclared(s) /\ t_pc[s] = "oriented"
                /\ t_pc'[s] \notin {"oriented", "killed"}) =>
                /\ t_pc'[s] = "failed"
                /\ t_err'[s] = "AssertionError"
                /\ Has(t_locals[s], "original_orientation")
                /\ files' = files]_vars

\* with the unit tests disabled, the task of a case with an undeclared label
\* value, stored in another orientation than the plan's, has failed
C16_Witness ==
    /\ preprocessor.disable_unittests
    /\ \E s \in Subjects :
          /\ t_pc[s] = "failed"
          /\ ~LabelsDeclared(s)
          /\ t_locals[s]["original_orientation"] \notin {"INVALID", t_locals[s]["final_direction"]}

\* C17: the task of a subject without modality files fails at the
\* resolution of its paths: it loads no volume, neither modality nor label,
\* fails with the error of the missing-data test whether the unit tests
\* are enabled or not, and writes no file.
C17_MissingDataAtResolution ==
    \A s \in Subjects : Len(imagepaths(s)) = 0 =>
        /\ t_pc[s] \in {"idle", "queued", "failed"}
        /\ t_images[s] = <<>>
        /\ t_seg[s] = <<>>
        /\ t_pc[s] = "failed" => t_err[s] = "AssertionError"
        /\ ~isfile(arraypath(s))
        /\ ~isfile(picklepath(s))

\* C18: under a plan that names an unknown normalization scheme nothing is
\* read or written: no volume is loaded by inference or by a training task,
\* no task gets past its start, and the target directory stays empty.
C18_SchemeCheckedFirst ==
    (\E m \in 1..Len(plans.normalization_scheme) :
        plans.normalization_scheme[m] \notin Schemes) =>
        /\ inf_pc \in {"idle", "failed"}
        /\ images = <<>>
        /\ \A s \in Subjects :
              /\ t_pc[s] \in {"idle", "queued", "failed"}
              /\ t_images[s] = <<>>
              /\ t_seg[s] = <<>>
        /\ files = NoProperties

\* the target shape of the resampling of the inference case, from its record
InferenceTargetShape ==
    TargetShape(TakeAxes(image_properties["cropped_shape"], plans.transpose_forward),
                TakeAxes(image_properties["original_spacing"], plans.transpose_forward),
                TakeAxes(plans.target_spacing, plans.transpose_forward))

\* C19: preprocess_case_for_inference returns no tensor and record for a case
\* whose resampling raised OverflowError (a target shape with an empty axis).
C19_OverflowIsFatal ==
    inf_pc = "done" =>
        \A k \in 1..Len(InferenceTargetShape) : InferenceTargetShape[k] > 0

\* C20: the affine, qform and sform of the inference record are those of the
\* first volume as it was loaded, before any reorientation.
C20_HeaderAsLoaded ==
    (inf_pc \in {"oriented", "cropped", "resampled", "padded", "done"}) =>
        /\ image_properties["qform"] = case.images[1].orientation
        /\ image_properties["sform"] = case.images[1].orientation
        /\ image_properties["affine"] = case.images[1].orientation

\* ------------------------------------------------------------------------
\* Properties of the pool of tasks
\* ------------------------------------------------------------------------
OwnFiles(s) == {arraypath(s), picklepath(s)}

\* the stacked array of the subject as a function of its raw files and the
\* plan alone: oriented, cropped, normalized, transposed, resampled
ExpectedArray(s) ==
    IF Len(StoredImages(s)) = 0 THEN <<>> ELSE
    LET vols == StoredImages(s)
        oriented == IF HeaderValid(vols[1])
                    THEN Reoriented(vols \o StoredSeg(s), get_nib_orientation(vols[1]),
                                    plans.target_coordinate_system)
                    ELSE AsLoaded(vols \o StoredSeg(s))
        box == get_bbox_for_foreground(oriented[1], 0)
        cropped == IF plans.crop_to_nonzero
                   THEN [i \in 1..Len(oriented) |-> crop_to_box(oriented[i], box)]
                   ELSE oriented
        spacing == get_nib_spacing(vols[1])
        r == _resample_and_normalize_case(SubSeq(cropped, 1, Len(vols)),
                 SubSeq(cropped, Len(vols) + 1, Len(cropped)), plans.normalization_scheme,
                 plans.transpose_forward, spacing,
                 IF Len(plans.target_spacing) > 0 THEN plans.target_spacing ELSE spacing,
                 plans.intensities, "caught")
    IN r.images \o r.seg

\* C14: a step of the task for subject s writes only s.npy and s.pkl,
\* removes no file and touches neither the instance nor a local of another
\* task; and whatever the
\* interleaving and the order of the tasks, the array file of a subject holds
\* the array that its own raw files give and the metadata file its own
\* record: every write of one of the two files writes just that.
C14_TasksIndependent ==
    /\ [][\A s \in Subjects :
            (run_pc = "mapping" /\ run_pc' = "mapping" /\ t_pc'[s] # t_pc[s]) =>
                /\ preprocessor' = preprocessor
                /\ DOMAIN files \subseteq DOMAIN files'
                /\ \A f \in DOMAIN files' :
                      (f \notin DOMAIN files \/ files'[f] # files[f]) => f \in OwnFiles(s)
                /\ \A x \in Subjects \ {s} :
                      /\ t_pc'[x] = t_pc[x]
                      /\ t_images'[x] = t_images[x]
                      /\ t_seg'[x] = t_seg[x]
                      /\ t_locals'[x] = t_locals[x]
                      /\ image_props'[x] = image_props[x]
                      /\ t_err'[x] = t_err[x]]_vars
    /\ [][\A s \in Subjects : \A f \in OwnFiles(s) :
            (f \in DOMAIN files' /\ (f \notin DOMAIN files \/ files'[f] # files[f])) =>
               LET expected == ExpectedArray(s)
               IN /\ Len(expected) > 0
                  /\ f = arraypath(s) => files'[f].array = expected
                  /\ f = picklepath(s) =>
                        /\ files'[f].record["segmentation file"] = s \o <<".nii.gz">>
                        /\ files'[f].record["new_size"] = expected[1].shape]_vars
    /\ [](\A s \in Subjects :
            isfile(picklepath(s)) =>
               /\ isfile(arraypath(s))
               /\ t_pc[s] = "saved" => files[picklepath(s)].record = image_props[s])

\* two tasks of one run are between their two writes at the same time
C14_Witness ==
    \E s \in Subjects : \E x \in Subjects \ {s} :
        /\ t_pc[s] = "array saved"
        /\ t_pc[x] = "array saved"
        /\ files[arraypath(s)] # files[arraypath(x)]

\* ------------------------------------------------------------------------
\* Properties of the normalization and the resampling
\* ------------------------------------------------------------------------
\* modality i normalized with scheme i and statistics i of the plans file,
\* then transposed by the forward permutation
NormalizedTransposed(imgs) ==
    [i \in 1..Len(imgs) |->
       Transpose(normalizer(imgs[i], plans.normalization_scheme[i], plans.intensities[i]),
                 plans.transpose_forward)]

NoEmptyAxis(shape) == \A k \in 1..Len(shape) : shape[k] > 0

\* C21: a resampling step of training or inference leaves every modality
\* normalized with its own scheme and statistics, then transposed by the
\* forward permutation, then resampled to the target shape computed from the
\* first normalized and transposed modality; the label is transposed by the
\* same permutation and resampled to the same shape, and never normalized.
\* (An array whose resize to a target shape with an empty axis raised the
\* OverflowError that the code catches stays normalized and transposed.)
C21_NormalizeThenResample ==
    [][/\ \A s \in Subjects :
             (t_pc[s] = "cropped" /\ t_pc'[s] = "resampled") =>
                LET pre == NormalizedTransposed(t_images[s])
                    target_shape ==
                        TargetShape(pre[1].shape,
                            TakeAxes(t_locals[s]["original_spacing"], plans.transpose_forward),
                            TakeAxes(t_locals[s]["target_spacing"], plans.transpose_forward))
                    seg_t == Transpose(t_seg[s][1], plans.transpose_forward)
                IN /\ Len(t_images'[s]) = Len(t_images[s])
                   /\ \A i \in 1..Len(pre) :
                         t_images'[s][i] = IF NoEmptyAxis(target_shape)
                                           THEN Resize(pre[i], target_shape) ELSE pre[i]
                   /\ \/ t_seg'[s] = <<Resize(seg_t, target_shape)>>
                      \/ ~NoEmptyAxis(target_shape) /\ t_seg'[s] = <<seg_t>>
       /\ (inf_pc = "cropped" /\ inf_pc' = "resampled") =>
             LET pre == NormalizedTransposed(images)
                 target_shape ==
                     TargetShape(pre[1].shape,
                         TakeAxes(image_properties["original_spacing"], plans.transpose_forward),
                         TakeAxes(plans.target_spacing, plans.transpose_forward))
             IN /\ Len(images') = Len(images)
                /\ \A i \in 1..Len(pre) :
                      images'[i] = IF NoEmptyAxis(target_shape)
                                   THEN Resize(pre[i], target_shape) ELSE pre[i]]_vars

\* a training task has resampled a case whose modalities have different
\* schemes, whose normalization changes the values of its arrays, under a
\* transposition that is not the identity and to a shape that is not the
\* transposed one
C21_Witness ==
    \E s \in Subjects :
        /\ t_pc[s] = "resampled"
        /\ Len(t_images[s]) > 1
        /\ plans.normalization_scheme[1] # plans.normalization_scheme[2]
        /\ plans.transpose_forward = <<1, 0>>
        /\ plans.target_spacing = Coarse(2)
        /\ t_images[s][1].shape = <<2, 1>>
        /\ t_seg[s][1].shape = <<2, 1>>

\* the shape the code computes for the resampling: axis k of the result is
\* axis transpose[k] of the cropped array, scaled by the ratio of the
\* original and the target spacing of that axis and rounded
ShapeByAxis(cropped_shape, original_spacing, target_spacing, transpose) ==
    [k \in 1..Len(transpose) |->
       RoundHalfEven(original_spacing[transpose[k] + 1] * cropped_shape[transpose[k] + 1],
                     target_spacing[transpose[k] + 1])]

\* C22: after a resampling step every modality and the label have the one
\* shape that is computed per axis as round((original_spacing[transpose] /
\* target_spacing[transpose]) * shape) from the shape of the cropped and
\* transposed first modality. (An array whose resize raised the OverflowError
\* that the code catches, for a shape with an empty axis, keeps its shape.)
C22_TargetShapePerAxis ==
    [][/\ \A s \in Subjects :
             (t_pc[s] = "cropped" /\ t_pc'[s] = "resampled") =>
                LET shape == ShapeByAxis(t_images[s][1].shape, t_locals[s]["original_spacing"],
                                 t_locals[s]["target_spacing"], plans.transpose_forward)
                    kept(a, a_new) ==
                        /\ ~NoEmptyAxis(shape)
                        /\ a_new.shape = TakeAxes(a.shape, plans.transpose_forward)
                IN /\ \A i \in 1..Len(t_images[s]) :
                         IF NoEmptyAxis(shape) THEN t_images'[s][i].shape = shape
                         ELSE kept(t_images[s][i], t_images'[s][i])
                   /\ t_seg'[s][1].shape = shape \/ kept(t_seg[s][1], t_seg'[s][1])
       /\ (inf_pc = "cropped" /\ inf_pc' = "resampled") =>
             LET shape == ShapeByAxis(images[1].shape, image_properties["original_spacing"],
                              plans.target_spacing, plans.transpose_forward)
             IN /\ \A i \in 1..Len(images) :
                      IF NoEmptyAxis(shape) THEN images'[i].shape = shape
                      ELSE images'[i].shape = TakeAxes(images[i].shape, plans.transpose_forward)
                /\ NoEmptyAxis(shape) =>
                      image_properties'["resampled_transposed_shape"] = shape]_vars

\* a case was resampled to a shape that rounds a half (3 voxels of spacing 1
\* to spacing 2: 1.5 rounds to 2) along an axis that the transposition moved
C22_Witness ==
    /\ inf_pc = "resampled"
    /\ plans.transpose_forward = <<1, 0>>
    /\ plans.target_spacing = Coarse(2)
    /\ image_properties["cropped_shape"] = <<3, 2>>
    /\ images[1].shape = <<2, 2>>

\* C23: the record a training task persists holds the spacing and the shape
\* of the first modality volume as stored, and as new_spacing the target
\* spacing (that of the plans file, or the original spacing of the case when
\* the plans file has none) with its axes permuted by transpose_forward.
C23_SpacingsOfTheRecord ==
    \A s \in Subjects :
        isfile(picklepath(s)) =>
            LET record == files[picklepath(s)].record
                first == StoredImages(s)[1]
                target == IF Len(plans.target_spacing) > 0 THEN plans.target_spacing
                          ELSE first.spacing
            IN /\ record["original_spacing"] = first.spacing
               /\ record["original_size"] = first.shape
               /\ Len(record["new_spacing"]) = Len(plans.transpose_forward)
               /\ \A k \in 1..Len(plans.transpose_forward) :
                     record["new_spacing"][k] = target[plans.transpose_forward[k] + 1]

\* a record was persisted under a plans file without target spacing, for a
\* case whose spacing differs between the axes, with the axes exchanged
C23_Witness ==
    \E s \in Subjects :
        /\ isfile(picklepath(s))
        /\ plans.target_spacing = <<>>
        /\ plans.transpose_forward = <<1, 0>>
        /\ StoredImages(s)[1].spacing = <<2, 1>>
        /\ files[picklepath(s)].record["new_spacing"] = <<1, 2>>

\* ------------------------------------------------------------------------
\* Properties of the instance and its record
\* ------------------------------------------------------------------------
\* C24: two calls of reverse_preprocessing with the same record and
\* predictions of the same shape both return, canvases of the same shape
\* for the same pairs, with the reversed array seated at the recorded box.
C24_RecordDeterminesInverse ==
    (OnNewInstance /\ rev_pc \in {"done", "failed"}) =>
        /\ rev_pc = "done"
        /\ DOMAIN rev_result = DOMAIN rev_first
        /\ \A p \in DOMAIN rev_first :
              /\ rev_result[p].shape = rev_first[p].shape
              /\ Has(image_properties, "nonzero_box") =>
                    SeatedIn(rev_result[p], image_properties["nonzero_box"], rev_out[p])

\* the name is that of a modality file of the subject: its id, an
\* underscore, the number of the modality and the suffix
OwnModalityFile(s, name) == \E m \in 1..Len(ModalityTags) : name = ModalityFile(s, m)

\* C25: the modality files a task has resolved for its subject id are files
\* of that subject, whatever other subject ids the dataset holds.
C25_OwnModalitiesOnly ==
    \A s \in Subjects :
        Has(image_props[s], "image files") =>
            \A i \in 1..Len(image_props[s]["image files"]) :
                OwnModalityFile(s, image_props[s]["image files"][i])

\* run() has ended and has skipped a case: the call is a re-run of the task
Rerun == run_pc \in {"returned", "raised"} /\ \E s \in Subjects : t_pc[s] = "skipped"

\* C26: at every point a case has its record only if it has its array, and
\* when a re-run in which no worker was killed has ended, every case whose
\* task did not raise has both files.
C26_CrashConsistent ==
    /\ \A s \in Subjects : isfile(picklepath(s)) => isfile(arraypath(s))
    /\ (Rerun /\ \A s \in Subjects : t_pc[s] # "killed") =>
           \A s \in Subjects : t_pc[s] # "failed" => Persisted(s)

\* C27: when reverse_preprocessing comes to resample and transpose the
\* prediction, the permutations it reads from the instance are those of the
\* plans file, on whatever instance it is called.
C27_PlanPermutations ==
    rev_pc = "resample" =>
        /\ preprocessor.transpose_forward = plans.transpose_forward
        /\ preprocessor.transpose_backward = plans.transpose_backward

\* C28: under a plans file without target spacing the resampling step of
\* preprocess_case_for_inference does what it would do with the original
\* spacing of the case as target spacing: the modalities keep the transposed
\* cropped shape and the call goes on.
C28_InferenceFallback ==
    [][(inf_pc = "cropped" /\ inf_pc' # "cropped" /\ plans.target_spacing = <<>>) =>
          LET r == _resample_and_normalize_case(images, <<>>, plans.normalization_scheme,
                       preprocessor.transpose_forward, image_properties["original_spacing"],
                       image_properties["original_spacing"], preprocessor.intensities,
                       "raised")
          IN IF r.ok
             THEN /\ inf_pc' = "resampled"
                  /\ images' = r.images
                  /\ images'[1].shape = TakeAxes(image_properties["cropped_shape"],
                                                 preprocessor.transpose_forward)
             ELSE inf_pc' = "failed" /\ inf_err' = r.err]_vars

\* the shape the task computes for the resampling of the subject, from its
\* raw files and the plans file: the first modality oriented and cropped,
\* its axes permuted and scaled by the spacings
ComputedShape(s) ==
    LET vols == StoredImages(s)
        oriented == IF HeaderValid(vols[1])
                    THEN Reoriented(vols, get_nib_orientation(vols[1]),
                                    plans.target_coordinate_system)
                    ELSE AsLoaded(vols)
        cropped == IF plans.crop_to_nonzero
                   THEN crop_to_box(oriented[1], get_bbox_for_foreground(oriented[1], 0))
                   ELSE oriented[1]
        spacing == get_nib_spacing(vols[1])
    IN ShapeByAxis(cropped.shape, spacing,
                   IF Len(plans.target_spacing) > 0 THEN plans.target_spacing ELSE spacing,
                   plans.transpose_forward)

C30_PerChannelReachesAugmentGamma ==
    \A s \in 1..Len(data_dict.data) : \A ch \in 1..Len(data_dict.data[s]) :
        LET sample == data_dict.data[s]
        IN sample[ch].power # <<>> =>
              LET operands == sample[ch].power[1]
              IN /\ operands.epsilon = epsilon_default
                 /\ operands.img_min = IF gamma.per_channel THEN MinIn(sample[ch].values)
                                        ELSE MinIn(Flat(sample))
                 /\ operands.times_epsilon = IF gamma.per_channel THEN epsilon_default ELSE 0
                 /\ ~gamma.per_channel => operands.gamma = sample[1].power[1].gamma
====
